---------------------------- MODULE Spec2Model ----------------------------
(***************************************************************************)
(* StandardMaterial (src/src/scene/materials/standard-material.js) and     *)
(* RenderAction (src/unnamed/part_001) as state machines.                  *)
(*                                                                         *)
(* Representation of JavaScript values:                                    *)
(*   - a number is an integer count of thousandths: Num(1, 1) is 1.0,      *)
(*     Num(1, 2) is 0.5;                                                   *)
(*   - null and undefined are the strings Null and Undefined;              *)
(*   - a texture or another object is a string naming its identity;        *)
(*   - a Color is <<r, g, b, a>>, a Vec2 is <<x, y>> (numbers as above);   *)
(*   - an engine constant (SPECULAR_PHONG, ...) is the string of its name. *)
(***************************************************************************)
EXTENDS Integers, Sequences, FiniteSets, TLC

VARIABLES
    props,                  \* props[m][name]: the field this._<name> of material m,
                            \* for the names of Tracked
    _dirtyShader,           \* _dirtyShader[m]: this._dirtyShader
    _chunks,                \* _chunks[m]: the keys of this._chunks
    _uniformCache,          \* _uniformCache[m]: the keys of this._uniformCache
    parameters,             \* parameters[m]: the keys of this.parameters (Material)
    _activeParams,          \* _activeParams[m]: the contents of this._activeParams
    _activeLightingParams,  \* _activeLightingParams[m]: the contents of
                            \* this._activeLightingParams
    _params,                \* the contents of the module-wide scratch Set _params
    onUpdateShader,         \* onUpdateShader[m]: the user hook, or Null
    programCache,           \* keys the program library holds a program for
    destroyed,              \* textures on which destroy() was called
    passEmitted,            \* passEmitted[m]: the names the most recent
                            \* updateUniforms pass on m handed to _setParameter
    last,                   \* the last operation and its outcome
    owned,                  \* owned[m][name]: the identity of the object the field
                            \* this._<name> of m refers to, for an aggregate property
    callerObjects,          \* callerObjects[v]: the components of the aggregate
                            \* object v that the caller holds
    standard,               \* the contents of the shared objects
                            \* standard.optionsContext and standard.optionsContextMin
    _props,                 \* the keys of the module-wide _props, each with the
                            \* number of times its accessor was installed
    ra,                     \* the fields of one RenderAction
    raCall,                 \* the last RenderAction operation and its arguments
    layerComposition        \* the layers of a LayerComposition, their sub-layer
                            \* flags, and the render actions of the frame

matVars == <<props, _dirtyShader, _chunks, _uniformCache, parameters,
             _activeParams, _activeLightingParams, _params,
             onUpdateShader, programCache, destroyed, passEmitted, last,
             owned, callerObjects, standard, _props>>
heapVars == <<owned, callerObjects>>
raVars == <<ra, raCall, layerComposition>>
vars == <<matVars, raVars>>

-----------------------------------------------------------------------------
(* JavaScript values *)

Num(n, d) == (n * 1000) \div d
Null == "null"
Undefined == "undefined"
Color(r, g, b) == <<r, g, b, Num(1, 1)>>
Vec2(x, y) == <<x, y>>

\* !!v for a texture- or object-valued property, and for occludeSpecular
\* (SPECOCC_NONE is the falsy member of its enumeration)
Truthy(v) == v \notin {Null, Undefined, "SPECOCC_NONE"}

Materials == {"matA", "matB"}

\* textures: identity, plus the three fields the map dirty predicate reads
Textures == {"texA", "texB", "texC", "texD", "texE"}
TexType(t) == IF t = "texD" THEN "rgbm" ELSE "default"
TexFormat(t) == IF t = "texC" THEN "PIXELFORMAT_DXT1" ELSE "PIXELFORMAT_R8_G8_B8_A8"
TexFixCubemapSeams(t) == t = "texE"
Objects == {"objA", "objB"}

-----------------------------------------------------------------------------
(* The property registry: _defineMaterialProps *)

ColorProps == {"ambient", "diffuse", "specular", "emissive", "sheen", "attenuation"}

FloatProps ==
    {"emissiveIntensity", "specularityFactor", "sheenGlossiness", "shininess",
     "heightMapFactor", "opacity", "alphaFade", "alphaTest", "bumpiness",
     "normalDetailMapBumpiness", "reflectivity", "occludeSpecularIntensity",
     "refraction", "refractionIndex", "thickness", "attenuationDistance",
     "metalness", "anisotropy", "clearCoat", "clearCoatGlossiness",
     "clearCoatBumpiness", "aoUvSet", "iridescence", "iridescenceRefractionIndex",
     "iridescenceThicknessMin", "iridescenceThicknessMax"}

ObjectProps == {"ambientSH", "cubeMapProjectionBox", "cubeMap", "sphereMap", "envAtlas"}

FlagProps ==
    {"ambientTint", "diffuseTint", "specularTint", "specularityFactorTint",
     "emissiveTint", "fastTbn", "useMetalness", "useMetalnessSpecularColor",
     "useSheen", "enableGGXSpecular", "occludeDirect", "normalizeNormalMap",
     "conserveEnergy", "opacityFadesSpecular", "occludeSpecular", "shadingModel",
     "fresnelModel", "useDynamicRefraction", "cubeMapProjection",
     "customFragmentShader", "forceFragmentPrecision", "useFog", "useLighting",
     "useGammaTonemap", "useSkybox", "forceUv1", "pixelSnap", "twoSidedLighting",
     "nineSlicedMode", "msdfTextAttribute", "useIridescence"}

\* _defineTex2D(name, uv, channels, defChannel, vertexColor, detailMode), in call order
Tex2DCalls ==
    << <<"diffuse", 0, 3, "", TRUE, FALSE>>,
       <<"specular", 0, 3, "", TRUE, FALSE>>,
       <<"emissive", 0, 3, "", TRUE, FALSE>>,
       <<"thickness", 0, 1, "", TRUE, FALSE>>,
       <<"specularityFactor", 0, 1, "", TRUE, FALSE>>,
       <<"normal", 0, -1, "", FALSE, FALSE>>,
       <<"metalness", 0, 1, "", TRUE, FALSE>>,
       <<"gloss", 0, 1, "", TRUE, FALSE>>,
       <<"opacity", 0, 1, "a", TRUE, FALSE>>,
       <<"refraction", 0, 1, "", TRUE, FALSE>>,
       <<"height", 0, 1, "", FALSE, FALSE>>,
       <<"ao", 0, 1, "", TRUE, FALSE>>,
       <<"light", 1, 3, "", TRUE, FALSE>>,
       <<"msdf", 0, 3, "", FALSE, FALSE>>,
       <<"diffuseDetail", 0, 3, "", FALSE, TRUE>>,
       <<"normalDetail", 0, -1, "", FALSE, FALSE>>,
       <<"clearCoat", 0, 1, "", TRUE, FALSE>>,
       <<"clearCoatGloss", 0, 1, "", TRUE, FALSE>>,
       <<"clearCoatNormal", 0, -1, "", FALSE, FALSE>>,
       <<"sheen", 0, 3, "", TRUE, FALSE>>,
       <<"sheenGloss", 0, 1, "", TRUE, FALSE>>,
       <<"iridescence", 0, 1, "", TRUE, FALSE>>,
       <<"iridescenceThickness", 0, 1, "", TRUE, FALSE>> >>

\* the keys of _matTex2D
_matTex2D == {Tex2DCalls[i][1] : i \in DOMAIN Tex2DCalls}
Tex2DCall(slot) == CHOOSE c \in {Tex2DCalls[i] : i \in DOMAIN Tex2DCalls} : c[1] = slot

MapProps == {s \o "Map" : s \in _matTex2D}
TilingProps == {s \o "MapTiling" : s \in _matTex2D}
OffsetProps == {s \o "MapOffset" : s \in _matTex2D}
RotationProps == {s \o "MapRotation" : s \in _matTex2D}
UvProps == {s \o "MapUv" : s \in _matTex2D}
ChannelProps == {s \o "MapChannel" : s \in {t \in _matTex2D : Tex2DCall(t)[3] > 0}}
VertexColorProps == {s \o "VertexColor" : s \in {t \in _matTex2D : Tex2DCall(t)[5]}}
VertexColorChannelProps ==
    {s \o "VertexColorChannel" :
        s \in {t \in _matTex2D : Tex2DCall(t)[5] /\ Tex2DCall(t)[3] > 0}}
ModeProps == {s \o "Mode" : s \in {t \in _matTex2D : Tex2DCall(t)[6]}}

\* properties defined through defineAggProp (the default value has a clone method)
AggProps == ColorProps \cup TilingProps \cup OffsetProps
\* properties defined through defineValueProp
ValueProps ==
    FloatProps \cup ObjectProps \cup FlagProps \cup MapProps \cup RotationProps
    \cup UvProps \cup ChannelProps \cup VertexColorProps
    \cup VertexColorChannelProps \cup ModeProps
\* every key of _props
PropNames == AggProps \cup ValueProps \cup {"prefilteredCubemaps"}

\* the names _defineMaterialProps hands to _defineColor (lines 1089-1094),
\* _defineFloat (1095-1130), _defineObject (1132-1158 and 1217-1219) and
\* _defineFlag (1160-1190), in call order
ColorCalls ==
    <<"ambient", "diffuse", "specular", "emissive", "sheen", "attenuation">>
FloatCalls ==
    <<"emissiveIntensity", "specularityFactor", "sheenGlossiness", "shininess",
      "heightMapFactor", "opacity", "alphaFade", "alphaTest", "bumpiness",
      "normalDetailMapBumpiness", "reflectivity", "occludeSpecularIntensity",
      "refraction", "refractionIndex", "thickness", "attenuationDistance",
      "metalness", "anisotropy", "clearCoat", "clearCoatGlossiness",
      "clearCoatBumpiness", "aoUvSet", "iridescence", "iridescenceRefractionIndex",
      "iridescenceThicknessMin", "iridescenceThicknessMax">>
ObjectCallsBeforeFlags ==
    <<"ambientSH", "cubeMapProjectionBox">>
FlagCalls ==
    <<"ambientTint", "diffuseTint", "specularTint", "specularityFactorTint",
      "emissiveTint", "fastTbn", "useMetalness", "useMetalnessSpecularColor",
      "useSheen", "enableGGXSpecular", "occludeDirect", "normalizeNormalMap",
      "conserveEnergy", "opacityFadesSpecular", "occludeSpecular", "shadingModel",
      "fresnelModel", "useDynamicRefraction", "cubeMapProjection",
      "customFragmentShader", "forceFragmentPrecision", "useFog", "useLighting",
      "useGammaTonemap", "useSkybox", "forceUv1", "pixelSnap", "twoSidedLighting",
      "nineSlicedMode", "msdfTextAttribute", "useIridescence">>
ObjectCallsAfterTex2D ==
    <<"cubeMap", "sphereMap", "envAtlas">>

\* the names one _defineTex2D call hands to defineProp, in order (lines 918-975)
Tex2DNames(c) ==
    <<c[1] \o "Map", c[1] \o "MapTiling", c[1] \o "MapOffset",
      c[1] \o "MapRotation", c[1] \o "MapUv">>
    \o (IF c[3] > 0 THEN <<c[1] \o "MapChannel">> ELSE <<>>)
    \o (IF c[5]
        THEN <<c[1] \o "VertexColor">>
             \o (IF c[3] > 0 THEN <<c[1] \o "VertexColorChannel">> ELSE <<>>)
        ELSE <<>>)
    \o (IF c[6] THEN <<c[1] \o "Mode">> ELSE <<>>)

RECURSIVE Tex2DNamesFrom(_)
Tex2DNamesFrom(i) ==
    IF i > Len(Tex2DCalls) THEN <<>>
    ELSE Tex2DNames(Tex2DCalls[i]) \o Tex2DNamesFrom(i + 1)

\* every name _defineMaterialProps hands to definePropInternal, in call order
DefinePropCalls ==
    ColorCalls \o FloatCalls \o ObjectCallsBeforeFlags \o FlagCalls
    \o Tex2DNamesFrom(1) \o ObjectCallsAfterTex2D \o <<"prefilteredCubemaps">>

\* a descriptor that lets a later Object.defineProperty replace the accessor
Configurable_True == TRUE

\* the configurable attribute of the descriptor of lines 865-870: the key is
\* absent, so the property is created non-configurable
Configurable == FALSE

\* definePropInternal(name, ...) on the registry p, where p[name] counts the
\* times the accessor and _props[name] were installed: Object.defineProperty
\* raises a TypeError for an accessor that exists and is not configurable,
\* before line 872 is reached
definePropInternal(p, name) ==
    IF name \in DOMAIN p /\ ~Configurable
    THEN [ok |-> FALSE, registry |-> p]
    ELSE [ok |-> TRUE,
          registry |-> [n \in DOMAIN p \cup {name} |->
                           IF n # name THEN p[n]
                           ELSE IF n \in DOMAIN p THEN p[n] + 1 ELSE 1]]

\* _defineMaterialProps(): the registry after the module load. The calls are
\* made in order on an empty registry and the first one that raises an error
\* ends the load: that is the first call whose name an earlier call installed,
\* unless accessors are configurable.
_defineMaterialProps ==
    LET calls == DefinePropCalls
        raising == {j \in DOMAIN calls :
                       /\ ~Configurable
                       /\ \E i \in 1..(j - 1) : calls[i] = calls[j]}
        made == IF raising = {} THEN Len(calls)
                ELSE (CHOOSE j \in raising : \A k \in raising : j <= k) - 1
    IN [ok |-> raising = {},
        registry |-> [n \in {calls[i] : i \in 1..made} |->
                         Cardinality({i \in 1..made : calls[i] = n})]]

SlotOf(name, suffix) == CHOOSE s \in _matTex2D : s \o suffix = name
DefChannel(slot) ==
    IF Tex2DCall(slot)[4] # "" THEN Tex2DCall(slot)[4]
    ELSE IF Tex2DCall(slot)[3] > 1 THEN "rgb" ELSE "g"

EmptyCubemaps == <<Null, Null, Null, Null, Null, Null>>

\* _props[name].value(): the default a constructor or reset() stores
DefaultValue(name) ==
    CASE name = "ambient" -> Color(Num(7, 10), Num(7, 10), Num(7, 10))
      [] name \in {"diffuse", "sheen", "attenuation"} -> Color(Num(1, 1), Num(1, 1), Num(1, 1))
      [] name \in {"specular", "emissive"} -> Color(0, 0, 0)
      [] name \in {"emissiveIntensity", "specularityFactor", "heightMapFactor",
                   "opacity", "alphaFade", "bumpiness", "normalDetailMapBumpiness",
                   "reflectivity", "occludeSpecularIntensity", "metalness",
                   "clearCoatGlossiness", "clearCoatBumpiness"} -> Num(1, 1)
      [] name = "shininess" -> Num(25, 1)
      [] name \in {"refractionIndex", "iridescenceRefractionIndex"} -> Num(10, 15)
      [] name \in FloatProps -> 0
      [] name \in ObjectProps -> Null
      [] name \in {"normalizeNormalMap", "conserveEnergy", "opacityFadesSpecular",
                   "useFog", "useLighting", "useGammaTonemap", "useSkybox"} -> TRUE
      [] name = "occludeSpecular" -> "SPECOCC_AO"
      [] name = "shadingModel" -> "SPECULAR_BLINN"
      [] name = "fresnelModel" -> "FRESNEL_SCHLICK"
      [] name = "cubeMapProjection" -> "CUBEPROJ_NONE"
      [] name \in {"customFragmentShader", "forceFragmentPrecision"} -> Null
      [] name = "nineSlicedMode" -> Undefined
      [] name \in FlagProps -> FALSE
      [] name \in MapProps -> Null
      [] name \in TilingProps -> Vec2(Num(1, 1), Num(1, 1))
      [] name \in OffsetProps -> Vec2(0, 0)
      [] name \in RotationProps -> 0
      [] name \in UvProps -> Num(Tex2DCall(SlotOf(name, "MapUv"))[2], 1)
      [] name \in ChannelProps -> DefChannel(SlotOf(name, "MapChannel"))
      [] name \in VertexColorProps -> FALSE
      [] name \in VertexColorChannelProps -> DefChannel(SlotOf(name, "VertexColorChannel"))
      [] name \in ModeProps -> "DETAILMODE_MUL"
      [] name = "prefilteredCubemaps" -> EmptyCubemaps

\* The properties some operation of the model assigns. Every other field
\* this._<name> holds its default in every state: only the setters, reset()
\* and copy() write the fields, and copy() writes a default over a default.
Tracked ==
    {"useFog", "alphaTest", "lightMap", "lightMapTiling", "emissive",
     "cubeMapProjectionBox", "cubeMapProjection", "clearCoat", "useMetalness",
     "diffuseMap", "diffuseMapTiling", "diffuseMapOffset", "diffuseMapRotation",
     "envAtlas", "prefilteredCubemaps", "specularMap", "specularTint",
     "cubeMap", "sphereMap", "ambientSH", "shadingModel", "useSkybox"}

\* the fields reset() writes: the default of every key of _props
AllDefaults == [name \in PropNames |-> DefaultValue(name)]

Defaults == [name \in Tracked |-> AllDefaults[name]]

\* the tracked properties defineProp registers, and the aggregates among them
TrackedProps == Tracked \cap (AggProps \cup ValueProps)
TrackedAggProps == Tracked \cap AggProps

\* every field this._<name> of a material whose tracked fields are tp
AllProps(tp) ==
    [name \in PropNames |-> IF name \in Tracked THEN tp[name] ELSE AllDefaults[name]]

-----------------------------------------------------------------------------
(* Property accessors: defineValueProp, defineAggProp, _defineColor, ... *)

\* a float predicate asking for a new shader on every change
FloatDirty_AnyChange(oldValue, newValue) == oldValue # newValue

\* the (oldValue, newValue) predicate a property is registered with
FloatDirty(oldValue, newValue) ==
    (oldValue = 0 \/ oldValue = Num(1, 1)) # (newValue = 0 \/ newValue = Num(1, 1))

\* an object predicate asking for a new shader when a value is set or unset
ObjectDirty_OnBinding(oldValue, newValue) == Truthy(oldValue) # Truthy(newValue)

\* dirtyShaderFunc of _defineObject: !!oldValue === !!newValue
ObjectDirty(oldValue, newValue) == Truthy(oldValue) = Truthy(newValue)

\* a map predicate that looks at bound against unbound only
MapDirty_BoundOnly(oldValue, newValue) == Truthy(oldValue) # Truthy(newValue)

\* dirtyShaderFunc of a <name>Map property
MapDirty(oldValue, newValue) ==
    \/ Truthy(oldValue) # Truthy(newValue)
    \/ /\ Truthy(oldValue)
       /\ \/ TexType(oldValue) # TexType(newValue)
          \/ TexFixCubemapSeams(oldValue) # TexFixCubemapSeams(newValue)
          \/ TexFormat(oldValue) # TexFormat(newValue)

\* dirtyShaderFunc with a default predicate that reports no change
dirtyShaderFunc_DefaultFalse(name, oldValue, newValue) ==
    CASE name \in FloatProps -> FloatDirty(oldValue, newValue)
      [] name \in ObjectProps -> ObjectDirty(oldValue, newValue)
      [] name \in MapProps -> MapDirty(oldValue, newValue)
      [] OTHER -> FALSE

\* prop.dirtyShaderFunc || (() => true)
dirtyShaderFunc(name, oldValue, newValue) ==
    CASE name \in FloatProps -> FloatDirty(oldValue, newValue)
      [] name \in ObjectProps -> ObjectDirty(oldValue, newValue)
      [] name \in MapProps -> MapDirty(oldValue, newValue)
      [] OTHER -> TRUE

\* SetterResult flagging the shader before it compares the values
SetterResult_FlagsFirst(p, d, name, value) ==
    IF p[name] # value
    THEN [p |-> [p EXCEPT ![name] = value], d |-> TRUE]
    ELSE [p |-> p, d |-> TRUE]

\* SetterResult storing the value only when the predicate asks for a new shader
SetterResult_StoresIfDirty(p, d, name, value) ==
    IF p[name] # value /\ dirtyShaderFunc(name, p[name], value)
    THEN [p |-> [p EXCEPT ![name] = value], d |-> TRUE]
    ELSE [p |-> p, d |-> d]

\* the state of one material after the registered setter ran: material[name] = value.
\* A value property compares with !==, an aggregate property with equals() and
\* copies the components into the object it owns.
SetterResult(p, d, name, value) ==
    IF p[name] # value
    THEN [p |-> [p EXCEPT ![name] = value],
          d |-> d \/ dirtyShaderFunc(name, p[name], value)]
    ELSE [p |-> p, d |-> d]

\* GetterDirties for a registry whose colors have the default getter
GetterDirties_Never(name) == FALSE

\* the getter of a registered property: the colors flag the shader dirty
GetterDirties(name) == name \in ColorProps

\* last: the operation that ran last: the method, the material it ran on, the
\* property (or pass, or source material) it was given, the value a setter was
\* given, whether it returned (ok) or raised an error, and the branch it took
Op(op, m, name, arg, ok, note) ==
    [op |-> op, mat |-> m, name |-> name, arg |-> arg, ok |-> ok, note |-> note,
     calls |-> <<>>]

\* the branch a registered setter takes
SetterNote(p, name, value) ==
    IF p[name] = value THEN "same"
    ELSE IF dirtyShaderFunc(name, p[name], value) THEN "dirties" ELSE "keeps"

\* material[name] = value, for a property defined by defineProp
SetProp(m, name, value) ==
    LET r == SetterResult(props[m], _dirtyShader[m], name, value) IN
    /\ name \in TrackedProps
    /\ props' = [props EXCEPT ![m] = r.p]
    /\ _dirtyShader' = [_dirtyShader EXCEPT ![m] = r.d]
    /\ last' = Op("set", m, name, value, TRUE, SetterNote(props[m], name, value))
    /\ UNCHANGED <<_chunks, _uniformCache, parameters, _activeParams,
                   _activeLightingParams, _params, onUpdateShader,
                   programCache, destroyed, passEmitted, raVars, heapVars, standard, _props>>

\* a read of material[name]
GetProp(m, name) ==
    /\ name \in AggProps \cup ValueProps
    /\ _dirtyShader' = [_dirtyShader EXCEPT ![m] = @ \/ GetterDirties(name)]
    /\ last' = Op("get", m, name, "", TRUE, "")
    /\ UNCHANGED <<props, _chunks, _uniformCache, parameters, _activeParams,
                   _activeLightingParams, _params, onUpdateShader,
                   programCache, destroyed, passEmitted, raVars, heapVars, standard, _props>>

\* material[name].set(...) or material[name].r = ...: the caller reads an aggregate
\* property and changes the object it was handed in place; every field that
\* refers to that object shows the new components
MutateInPlace(m, name, value) ==
    /\ name \in TrackedAggProps
    /\ props' = [m2 \in Materials |->
                    [n \in Tracked |->
                        IF n \in TrackedAggProps /\ owned[m2][n] = owned[m][name]
                        THEN value ELSE props[m2][n]]]
    /\ _dirtyShader' = [_dirtyShader EXCEPT ![m] = @ \/ GetterDirties(name)]
    /\ last' = Op("mutate", m, name, "", TRUE, IF props[m][name] = value THEN "same" ELSE "changed")
    /\ UNCHANGED <<_chunks, _uniformCache, parameters, _activeParams,
                   _activeLightingParams, _params, onUpdateShader,
                   programCache, destroyed, passEmitted, raVars, heapVars, standard, _props>>

\* the object new StandardMaterial() and reset() store in this._<name>: a clone
\* of the default, owned by the material
Own(m, name) == m \o "._" \o name

\* the fields that hold an object of the material's own: the aggregates, and
\* the face array empty.slice() of prefilteredCubemaps
OwnedProps == TrackedAggProps \cup {"prefilteredCubemaps"}

\* the aggregate objects the caller holds, and the kind of each
CallerObjects == {"colorV", "vecV"}
CallerKind(v) == IF v = "colorV" THEN ColorProps ELSE TilingProps \cup OffsetProps

\* the components of the object v: a caller's object, or the one a material stores
HeapValue(v) ==
    IF v \in CallerObjects THEN callerObjects[v]
    ELSE LET h == CHOOSE h \in Materials \X TrackedAggProps : owned[h[1]][h[2]] = v
         IN props[h[1]][h[2]]

\* AggStored keeping a reference to the object it was handed
AggStored_Alias(oldValue, value) == value

\* line 902: the object oldValue.copy(value) returns, stored in the field
AggStored(oldValue, value) == oldValue

\* material[name] = v for an aggregate property, v being an object the caller
\* holds or the one another property stores; the components of v are compared
\* and copied
AssignObject(m, name, v) ==
    LET value == HeapValue(v)
        r == SetterResult(props[m], _dirtyShader[m], name, value)
    IN
    /\ name \in TrackedAggProps
    /\ v # owned[m][name]
    /\ v \in CallerObjects => name \in CallerKind(v)
    /\ v \notin CallerObjects => v \in {owned[m2][name] : m2 \in Materials}
    /\ props' = [props EXCEPT ![m] = r.p]
    /\ _dirtyShader' = [_dirtyShader EXCEPT ![m] = r.d]
    /\ owned' = [owned EXCEPT ![m][name] =
                    IF props[m][name] # value THEN AggStored(@, v) ELSE @]
    /\ last' = Op("assign", m, name, v, TRUE, SetterNote(props[m], name, value))
    /\ UNCHANGED <<_chunks, _uniformCache, parameters, _activeParams,
                   _activeLightingParams, _params, onUpdateShader,
                   programCache, destroyed, passEmitted, raVars, callerObjects, standard, _props>>

\* v.set(...) on an object v the caller holds: every field that refers to v
\* shows the new components
MutateCaller(v, value) ==
    /\ v \in CallerObjects
    /\ value # callerObjects[v]
    /\ callerObjects' = [callerObjects EXCEPT ![v] = value]
    /\ props' = [m \in Materials |->
                    [name \in Tracked |->
                        IF name \in TrackedAggProps /\ owned[m][name] = v
                        THEN value ELSE props[m][name]]]
    /\ last' = Op("mutateCaller", "none", v, "", TRUE, "")
    /\ UNCHANGED <<_dirtyShader, _chunks, _uniformCache, parameters, _activeParams,
                   _activeLightingParams, _params, onUpdateShader,
                   programCache, destroyed, passEmitted, raVars, owned, standard, _props>>

\* material.chunks = value
SetChunks(m, value) ==
    /\ _dirtyShader' = [_dirtyShader EXCEPT ![m] = TRUE]
    /\ _chunks' = [_chunks EXCEPT ![m] = value]
    /\ last' = Op("setChunks", m, "chunks", "", TRUE, "")
    /\ UNCHANGED <<props, _uniformCache, parameters, _activeParams,
                   _activeLightingParams, _params, onUpdateShader,
                   programCache, destroyed, passEmitted, raVars, heapVars, standard, _props>>

\* a read of material.chunks
GetChunks(m) ==
    /\ _dirtyShader' = [_dirtyShader EXCEPT ![m] = TRUE]
    /\ last' = Op("getChunks", m, "chunks", "", TRUE, "")
    /\ UNCHANGED <<props, _chunks, _uniformCache, parameters, _activeParams,
                   _activeLightingParams, _params, onUpdateShader,
                   programCache, destroyed, passEmitted, raVars, heapVars, standard, _props>>

-----------------------------------------------------------------------------
(* Parameters: _setParameter, _setParameters, _processParameters *)

\* the array object getUniform('cubeMapProjectionBox') returns for material m
BoxUniform(m) == "cubeMapProjectionBox[]@" \o m

\* Material.setParameter(name, value): binds name; handed an array of
\* {name, value} objects and no value, binds every element of the array
setParameter(table, name) ==
    IF name \in {BoxUniform(m) : m \in Materials}
    THEN table \cup {"envBoxMin", "envBoxMax"}
    ELSE table \cup {name}

RECURSIVE BindAllRec(_, _)
BindAllRec(table, names) ==
    IF names = {} THEN table
    ELSE LET n == CHOOSE x \in names : TRUE
         IN BindAllRec(setParameter(table, n), names \ {n})

\* the bound-parameter table after _setParameter ran for every name of names
BindAll(table, names) == BindAllRec(table, names)

\* _processParameters(paramsName): table is this.parameters, prevParams the
\* contents of the Set this[paramsName], scratch those of the Set _params. The two
\* Set objects change places (this[paramsName] = _params; _params = prevParams)
\* and the one that becomes _params is cleared. Gives this.parameters,
\* this[paramsName] and _params afterwards.
_processParameters(table, prevParams, scratch) ==
    [table |-> table \ {param \in prevParams : param \notin scratch},
     active |-> scratch,
     scratch |-> {}]

\* MapTransformUniform that compares tiling and offset only
MapTransformUniform_IgnoresRotation(p, slot) ==
    LET tiling == p[slot \o "MapTiling"]
        offset == p[slot \o "MapOffset"]
    IN IF /\ tiling[1] = Num(1, 1) /\ tiling[2] = Num(1, 1)
          /\ offset[1] = 0 /\ offset[2] = 0
       THEN {}
       ELSE {"texture_" \o slot \o "MapTransform0", "texture_" \o slot \o "MapTransform1"}

\* the uniform <slot>MapTransform: null for the identity transform
MapTransformUniform(p, slot) ==
    LET tiling == p[slot \o "MapTiling"]
        offset == p[slot \o "MapOffset"]
        rotation == p[slot \o "MapRotation"]
    IN IF /\ tiling[1] = Num(1, 1) /\ tiling[2] = Num(1, 1)
          /\ offset[1] = 0 /\ offset[2] = 0
          /\ rotation = 0
       THEN {}
       ELSE {"texture_" \o slot \o "MapTransform0", "texture_" \o slot \o "MapTransform1"}

\* the names _updateMap(slot) passes to _setParameter
_updateMap(p, slot) ==
    IF Truthy(p[slot \o "Map"])
    THEN {"texture_" \o slot \o "Map"} \cup MapTransformUniform(p, slot)
    ELSE {}

\* updateUniforms, lines 660-743: the names passed to _setParameter before the
\* box projection uniform is fetched
EmitsBeforeBox(p) ==
    {"material_ambient", "material_shininess", "material_opacity"}
    \cup (IF ~Truthy(p["diffuseMap"]) \/ p["diffuseTint"] THEN {"material_diffuse"} ELSE {})
    \cup (IF ~p["useMetalness"]
          THEN (IF ~Truthy(p["specularMap"]) \/ p["specularTint"]
                THEN {"material_specular"} ELSE {})
          ELSE (IF ~Truthy(p["metalnessMap"]) \/ p["metalness"] < Num(1, 1)
                THEN {"material_metalness"} ELSE {})
               \cup (IF ~Truthy(p["specularMap"]) \/ p["specularTint"]
                     THEN {"material_specular"} ELSE {})
               \cup (IF ~Truthy(p["specularityFactorMap"]) \/ p["specularityFactorTint"]
                     THEN {"material_specularityFactor"} ELSE {})
               \* sheenTint, sheenGlossinessMap and sheenGlossinessTint are not
               \* registered properties: they read as undefined
               \cup (IF ~Truthy(p["sheenMap"]) THEN {"material_sheen"} ELSE {})
               \cup {"material_sheenGlossiness"}
               \cup {"material_f0"})
    \cup (IF p["enableGGXSpecular"] THEN {"material_anisotropy"} ELSE {})
    \cup (IF p["clearCoat"] > 0
          THEN {"material_clearCoat", "material_clearCoatGlossiness",
                "material_clearCoatReflectivity", "material_clearCoatBumpiness"}
          ELSE {})
    \cup (IF ~Truthy(p["emissiveMap"]) \/ p["emissiveTint"] THEN {"material_emissive"} ELSE {})
    \cup (IF p["emissiveIntensity"] # Num(1, 1) THEN {"material_emissiveIntensity"} ELSE {})
    \cup (IF p["refraction"] > 0
          THEN {"material_refraction", "material_refractionIndex"} ELSE {})
    \cup (IF p["useDynamicRefraction"]
          THEN {"material_thickness", "material_attenuation",
                "material_invAttenuationDistance"}
          ELSE {})
    \cup (IF p["useIridescence"]
          THEN {"material_iridescence", "material_iridescenceRefractionIndex",
                "material_iridescenceThicknessMin", "material_iridescenceThicknessMax"}
          ELSE {})
    \cup (IF p["opacityFadesSpecular"] = FALSE THEN {"material_alphaFade"} ELSE {})
    \cup (IF Truthy(p["occludeSpecular"])
          THEN {"material_occludeSpecularIntensity"} ELSE {})

\* the color uniforms lines 660-743 fetch: each reads the color through its getter
ColorsReadBeforeBox(p) ==
    LET emitted == EmitsBeforeBox(p) IN
    {"ambient"}
    \cup (IF "material_diffuse" \in emitted THEN {"diffuse"} ELSE {})
    \cup (IF "material_specular" \in emitted THEN {"specular"} ELSE {})
    \cup (IF "material_sheen" \in emitted THEN {"sheen"} ELSE {})
    \cup (IF "material_emissive" \in emitted THEN {"emissive"} ELSE {})
    \cup (IF "material_attenuation" \in emitted THEN {"attenuation"} ELSE {})

\* lines 745-747: getUniform('cubeMapProjectionBox') dereferences the box
BoxFetched(p) == p["cubeMapProjection"] = "CUBEPROJ_BOX"
BoxThrows(p) == BoxFetched(p) /\ ~Truthy(p["cubeMapProjectionBox"])
\* line 746 hands _setParameter the uniform array as the name
EmitsBox(p, m) == IF BoxFetched(p) /\ ~BoxThrows(p) THEN {BoxUniform(m)} ELSE {}

\* updateUniforms, lines 749-783
EmitsAfterBox(p) ==
    LET isPhong == p["shadingModel"] = "SPECULAR_PHONG" IN
    UNION {_updateMap(p, slot) : slot \in _matTex2D}
    \cup (IF Truthy(p["ambientSH"]) THEN {"ambientSH[0]"} ELSE {})
    \cup (IF Truthy(p["normalMap"]) THEN {"material_bumpiness"} ELSE {})
    \cup (IF Truthy(p["normalMap"]) /\ Truthy(p["normalDetailMap"])
          THEN {"material_normalDetailMapBumpiness"} ELSE {})
    \cup (IF Truthy(p["heightMap"]) THEN {"material_heightMapFactor"} ELSE {})
    \cup (IF Truthy(p["envAtlas"]) /\ Truthy(p["cubeMap"]) /\ ~isPhong
          THEN {"texture_envAtlas", "texture_cubeMap"}
          ELSE IF Truthy(p["envAtlas"]) /\ ~isPhong THEN {"texture_envAtlas"}
          ELSE IF Truthy(p["cubeMap"]) THEN {"texture_cubeMap"}
          ELSE IF Truthy(p["sphereMap"]) THEN {"texture_sphereMap"}
          ELSE {})
    \cup {"material_reflectivity"}

\* the keys _allocUniform adds to the uniform cache during updateUniforms
UniformsAllocated(p) ==
    ColorsReadBeforeBox(p)
    \cup (IF BoxFetched(p) THEN {"cubeMapProjectionBox"} ELSE {})
    \cup (IF BoxThrows(p) THEN {}
          ELSE {slot \o "MapTransform" :
                   slot \in {s \in _matTex2D :
                               Truthy(p[s \o "Map"]) /\ MapTransformUniform(p, s) # {}}})

\* every name updateUniforms passes to _setParameter, up to the point it throws
UpdateUniformsEmits(p, m) ==
    EmitsBeforeBox(p)
    \cup (IF BoxThrows(p) THEN {} ELSE EmitsBox(p, m) \cup EmitsAfterBox(p))

-----------------------------------------------------------------------------
(* updateUniforms, updateEnvUniforms, getShaderVariant *)

\* whether a getter that updateUniforms calls flags the shader dirty
UniformReadsDirty(p) == \E name \in ColorsReadBeforeBox(p) : GetterDirties(name)

\* UniformsPass clearing the flag once the parameters are uploaded
UniformsPass_ClearsDirty(p, m, table, scratch, dirty) ==
    LET emitted == CHOOSE e \in {UpdateUniformsEmits(p, m)} : TRUE IN
    [emitted |-> emitted,
     scratch |-> scratch \cup emitted,
     table |-> BindAll(table, emitted),
     dirty |-> FALSE]

\* updateUniforms up to the point it returns or throws: the names it passed to
\* _setParameter, the contents of _params, the keys of this.parameters and the
\* value of this._dirtyShader there
UniformsPass(p, m, table, scratch, dirty) ==
    LET emitted == CHOOSE e \in {UpdateUniformsEmits(p, m)} : TRUE IN
    [emitted |-> emitted,
     scratch |-> scratch \cup emitted,
     table |-> BindAll(table, emitted),
     dirty |-> dirty \/ UniformReadsDirty(p)]

\* updateUniforms ending without the call of line 789
ClearsVariants_Never(dirty) == FALSE

\* lines 788-790: clearVariants() is called when this._dirtyShader is true
ClearsVariants(dirty) == dirty

\* material.updateUniforms(device, scene)
UpdateUniforms(m) ==
    LET p == AllProps(props[m]) IN
    \E pass \in {UniformsPass(p, m, parameters[m], _params, _dirtyShader[m])} :
    \E done \in {_processParameters(pass.table, _activeParams[m], pass.scratch)} :
    /\ _dirtyShader' = [_dirtyShader EXCEPT ![m] = pass.dirty]
    /\ _uniformCache' = [_uniformCache EXCEPT ![m] = @ \cup UniformsAllocated(p)]
    /\ passEmitted' = [passEmitted EXCEPT ![m] = pass.emitted]
    /\ IF BoxThrows(p)
       THEN \* the TypeError leaves updateUniforms before _processParameters
            /\ _params' = pass.scratch
            /\ parameters' = [parameters EXCEPT ![m] = pass.table]
            /\ UNCHANGED _activeParams
            /\ last' = Op("updateUniforms", m, "", "", FALSE, "")
       ELSE /\ _params' = done.scratch
            /\ parameters' = [parameters EXCEPT ![m] = done.table]
            /\ _activeParams' = [_activeParams EXCEPT ![m] = done.active]
            /\ last' = Op("updateUniforms", m, "", "", TRUE,
                          IF ClearsVariants(pass.dirty) THEN "clearVariants" ELSE "")
    /\ UNCHANGED <<props, _chunks, _activeLightingParams, onUpdateShader,
                   programCache, destroyed, raVars, heapVars, standard, _props>>

\* a scene: its envAtlas and skybox, and whether its skybox rotation is not the
\* identity (with _skyboxRotationMat3 set)
Scene(envAtlas, skybox, rotated) ==
    [envAtlas |-> envAtlas, skybox |-> skybox, rotated |-> rotated]

\* an override test that looks at the material's envAtlas only
HasLocalEnvOverride_AtlasOnly(p) ==
    Truthy(p["envAtlas"]) /\ p["shadingModel"] # "SPECULAR_PHONG"

\* hasLocalEnvOverride of updateEnvUniforms (line 795)
HasLocalEnvOverride(p) ==
    \/ Truthy(p["envAtlas"]) /\ p["shadingModel"] # "SPECULAR_PHONG"
    \/ Truthy(p["cubeMap"])
    \/ Truthy(p["sphereMap"])

\* the names updateEnvUniforms passes to _setParameter
EnvEmits(p, scene) ==
    LET isPhong == p["shadingModel"] = "SPECULAR_PHONG"
    IN IF ~HasLocalEnvOverride(p) /\ p["useSkybox"]
       THEN (IF Truthy(scene.envAtlas) /\ Truthy(scene.skybox) /\ ~isPhong
             THEN {"texture_envAtlas", "texture_cubeMap"}
             ELSE IF Truthy(scene.envAtlas) /\ ~isPhong THEN {"texture_envAtlas"}
             ELSE IF Truthy(scene.skybox) THEN {"texture_cubeMap"}
             ELSE {})
            \cup (IF scene.rotated THEN {"cubeMapRotationMatrix"} ELSE {})
       ELSE {}

\* updateEnvUniforms: this.parameters, this._activeLightingParams and _params
\* afterwards
EnvResult(m, scene) ==
    LET emitted == EnvEmits(AllProps(props[m]), scene)
    IN _processParameters(BindAll(parameters[m], emitted), _activeLightingParams[m],
                          _params \cup emitted)

\* material.updateEnvUniforms(device, scene)
UpdateEnvUniforms(m, scene) ==
    LET r == EnvResult(m, scene) IN
    /\ parameters' = [parameters EXCEPT ![m] = r.table]
    /\ _activeLightingParams' = [_activeLightingParams EXCEPT ![m] = r.active]
    /\ _params' = r.scratch
    /\ last' = Op("updateEnvUniforms", m, "", "", TRUE, "")
    /\ UNCHANGED <<props, _dirtyShader, _chunks, _uniformCache, _activeParams,
                   onUpdateShader, programCache, destroyed, passEmitted, raVars, heapVars, standard, _props>>

\* ShaderPass.isShadow(pass)
IsShadow(pass) == pass = "SHADER_SHADOW"

\* getShaderVariant taking the minimal path for the depth pass only
MinimalOptions_DepthOnly(pass) == pass = "SHADER_DEPTH"

\* line 821
MinimalOptions(pass) == pass = "SHADER_DEPTH" \/ pass = "SHADER_PICK" \/ IsShadow(pass)

\* the options the builder leaves in the options context: updateMinRef on
\* standard.optionsContextMin, updateRef on standard.optionsContext
BuildOptions(p, pass) ==
    [builder |-> IF MinimalOptions(pass) THEN "updateMinRef" ELSE "updateRef",
     pass |-> pass,
     hooked |-> "none"]

\* this.onUpdateShader(options), for the hooks of the model
CallHook(hook, options) ==
    IF hook = "hookKeep" THEN options ELSE [options EXCEPT !.hooked = hook]

\* getShaderVariant passing the built options to the library whatever the
\* hook returned
HookedOptions_Ignored(hook, options) == options

\* line 830-832
HookedOptions(hook, options) == IF hook # Null THEN CallHook(hook, options) ELSE options

\* getShaderVariant returning without touching the flag of a dirty material
DirtyAfterVariant_Kept == TRUE

\* the value getShaderVariant leaves in _dirtyShader when it returns a program
DirtyAfterVariant == FALSE

\* getShaderVariant clearing the flag before it asks for the program
DirtyAfterThrow_Cleared(old) == FALSE

\* the value of _dirtyShader when an error leaves getShaderVariant: line 840
\* is not reached
DirtyAfterThrow(old) == old

\* the options contexts before any builder ran
EmptyOptions == [builder |-> "none", pass |-> "none", hooked |-> "none"]

\* line 822: the shared object the builder is given
VariantContext(pass) ==
    IF MinimalOptions(pass) THEN "optionsContextMin" ELSE "optionsContext"

\* the calls getShaderVariant makes after updateEnvUniforms, in order, each
\* with the options it is given, up to the call that raises an error:
\* the builder (lines 824-827), the hook (lines 830-832), getProgram (line 838)
VariantCalls(hook, built, outcome) ==
    LET builderCall == <<[call |-> built.builder, options |-> built]>>
        hookCall == IF hook # Null
                    THEN <<[call |-> "onUpdateShader", options |-> built]>>
                    ELSE <<>>
        programCall == <<[call |-> "getProgram",
                          options |-> HookedOptions(hook, built)]>>
    IN IF outcome = "builderThrows" THEN builderCall
       ELSE IF outcome = "hookThrows" THEN builderCall \o hookCall
       ELSE builderCall \o hookCall \o programCall

\* the key the program library files a 'standard' program under: the
\* contents of the options and of the processing options, not the objects
ProgramKey(options, processing) == [options |-> options, processing |-> processing]

\* a library that generates a program on every call
LibraryHit_Never(cache, key) == FALSE

\* the library holds a program for the key
LibraryHit(cache, key) == \E e \in cache : e.key = key

\* how many times the library generated a program for the key
Generations(cache, key) ==
    IF \E e \in cache : e.key = key
    THEN (CHOOSE e \in cache : e.key = key).generation
    ELSE 0

\* library.getProgram('standard', options, processingOptions): the program
\* the library holds for the key, or a newly generated one that it then holds
GetProgram(cache, key) ==
    IF LibraryHit(cache, key)
    THEN [cache |-> cache, program |-> CHOOSE e \in cache : e.key = key]
    ELSE LET e == [key |-> key, generation |-> Generations(cache, key) + 1]
         IN [cache |-> {x \in cache : x.key # key} \cup {e}, program |-> e]

\* material.getShaderVariant(device, scene, objDefs, staticLightList, pass,
\* sortedLights, viewUniformFormat, viewBindGroupFormat). outcome names the
\* call that raises an error, if one does; a builder that raises may or may
\* not have written the context it was given.
GetShaderVariant(m, scene, pass, format, outcome) ==
    LET r == EnvResult(m, scene)
        built == BuildOptions(AllProps(props[m]), pass)
        options == HookedOptions(onUpdateShader[m], built)
        key == ProgramKey(options, format)
        got == GetProgram(programCache, key)
        returned == outcome = "ok"
    IN
    /\ outcome \in {"ok", "builderThrows", "hookThrows", "programThrows"}
    /\ outcome = "hookThrows" => onUpdateShader[m] # Null
    \* a program the library holds is returned without generating it
    /\ outcome = "programThrows" => ~LibraryHit(programCache, key)
    /\ parameters' = [parameters EXCEPT ![m] = r.table]
    /\ _activeLightingParams' = [_activeLightingParams EXCEPT ![m] = r.active]
    /\ _params' = r.scratch
    /\ \E written \in BOOLEAN :
          /\ outcome # "builderThrows" => written
          /\ standard' = IF written
                         THEN [standard EXCEPT ![VariantContext(pass)] = built]
                         ELSE standard
    /\ programCache' = IF returned THEN got.cache ELSE programCache
    /\ _dirtyShader' = [_dirtyShader EXCEPT ![m] =
                           IF returned THEN DirtyAfterVariant ELSE DirtyAfterThrow(@)]
    /\ last' = [Op("getShaderVariant", m, pass,
                    IF returned THEN got.program ELSE Null, returned, outcome)
                  EXCEPT !.calls = VariantCalls(onUpdateShader[m], built, outcome)]
    /\ UNCHANGED <<props, _chunks, _uniformCache, _activeParams, onUpdateShader,
                   destroyed, passEmitted, raVars, heapVars, _props>>

\* material.onUpdateShader = hook
SetOnUpdateShader(m, hook) ==
    /\ onUpdateShader' = [onUpdateShader EXCEPT ![m] = hook]
    /\ last' = Op("setOnUpdateShader", m, "onUpdateShader", "", TRUE, "")
    /\ UNCHANGED <<props, _dirtyShader, _chunks, _uniformCache, parameters,
                   _activeParams, _activeLightingParams, _params,
                   programCache, destroyed, passEmitted, raVars, heapVars, standard, _props>>

\* a call of definePropInternal(name, ...) after the module was loaded
DefinePropInternal(name) ==
    LET r == definePropInternal(_props, name) IN
    /\ _props' = r.registry
    /\ last' = Op("definePropInternal", "none", name, "", r.ok, "")
    /\ UNCHANGED <<props, _dirtyShader, _chunks, _uniformCache, parameters,
                   _activeParams, _activeLightingParams, _params, onUpdateShader,
                   programCache, destroyed, passEmitted, raVars, heapVars, standard>>

-----------------------------------------------------------------------------
(* prefilteredCubemaps, copy, reset *)

AtlasPool == {"atlas1", "atlas2", "atlas3"}

\* EnvLighting.generatePrefilteredAtlas(cubemaps, { target }): the target when
\* one is given, a new texture otherwise
GeneratePrefilteredAtlas(target, allProps) ==
    IF Truthy(target) THEN target
    ELSE CHOOSE a \in AtlasPool : \A m \in Materials : allProps[m]["envAtlas"] # a

\* value[i] || null for the six faces; value is an array (value || [] makes
\* null the empty array <<>>)
Faces(value) ==
    [i \in 1..6 |-> IF i \in DOMAIN value /\ Truthy(value[i]) THEN value[i] ELSE Null]

\* the setter of prefilteredCubemaps on material m, whose fields are p and whose
\* flag is d; gone is the set of destroyed textures
PrefilteredSetter(p, d, m, value, gone, allProps) ==
    LET cubemaps == Faces(value)
        changed == \E i \in 1..6 : p["prefilteredCubemaps"][i] # cubemaps[i]
        complete == \A i \in 1..6 : Truthy(cubemaps[i])
        p1 == [p EXCEPT !["prefilteredCubemaps"] = cubemaps]
        atlas == GeneratePrefilteredAtlas(p["envAtlas"], allProps)
        generated == SetterResult(p1, d, "envAtlas", atlas)
        dropped == SetterResult(p1, d, "envAtlas", Null)
    IN IF ~changed THEN [p |-> p, d |-> d, gone |-> gone, calls |-> <<>>]
       ELSE IF complete
            THEN [p |-> generated.p, d |-> TRUE, gone |-> gone \ {atlas},
                  calls |-> <<[call |-> "generatePrefilteredAtlas", options |-> atlas]>>]
       ELSE IF Truthy(p["envAtlas"])
            THEN [p |-> dropped.p, d |-> TRUE, gone |-> gone \cup {p["envAtlas"]},
                  calls |-> <<[call |-> "envAtlas.destroy", options |-> p["envAtlas"]]>>]
       ELSE [p |-> p1, d |-> TRUE, gone |-> gone, calls |-> <<>>]

\* a setter that keeps the array it was handed as the material's face array
FacesStored_Alias(cubemaps, value) == value

\* lines 1227-1236: the faces are written into this._prefilteredCubemaps, the
\* array the material holds since reset()
FacesStored(cubemaps, value) == cubemaps

\* material.prefilteredCubemaps = value, value being the array "facesV" the
\* caller holds
SetPrefilteredCubemaps(m, value) ==
    LET r == PrefilteredSetter(props[m], _dirtyShader[m], m, value, destroyed, props) IN
    /\ props' = [props EXCEPT ![m] = r.p]
    /\ _dirtyShader' = [_dirtyShader EXCEPT ![m] = r.d]
    /\ destroyed' = r.gone
    /\ owned' = [owned EXCEPT ![m]["prefilteredCubemaps"] = FacesStored(@, "facesV")]
    /\ last' = [Op("set", m, "prefilteredCubemaps", Faces(value), TRUE,
                    IF props[m]["prefilteredCubemaps"] = Faces(value)
                    THEN "same" ELSE "dirties")
                EXCEPT !.calls = r.calls]
    /\ UNCHANGED <<_chunks, _uniformCache, parameters, _activeParams,
                   _activeLightingParams, _params, onUpdateShader,
                   programCache, passEmitted, raVars, callerObjects, standard, _props>>

\* this[k] = source[k] for the keys k of names, in any order: the setters of
\* the properties defineProp registers touch their own field and the flag only
RECURSIVE CopyProps(_, _, _, _)
CopyProps(p, d, source, names) ==
    IF names = {} THEN [p |-> p, d |-> d]
    ELSE LET k == CHOOSE x \in names : TRUE
             r == SetterResult(p, d, k, source[k])
         IN CopyProps(r.p, r.d, source, names \ {k})

\* whether reading every key of _props on the source flags its shader dirty
CopyReadsDirty == \E k \in PropNames : GetterDirties(k)

\* this.copy(source), this being dst. prefilteredCubemaps is the last key of
\* _props; the fields outside Tracked are equal in both and their setters
\* leave them alone.
Copy(dst, source) ==
    LET c == CopyProps(props[dst], _dirtyShader[dst], props[source],
                       TrackedProps)
        r == PrefilteredSetter(c.p, c.d, dst, props[source]["prefilteredCubemaps"],
                               destroyed, [props EXCEPT ![dst] = c.p])
    IN
    /\ dst # source
    /\ props' = [props EXCEPT ![dst] = r.p]
    /\ _dirtyShader' = [_dirtyShader EXCEPT ![dst] = r.d,
                                            ![source] = @ \/ CopyReadsDirty]
    /\ destroyed' = r.gone
    /\ _chunks' = [_chunks EXCEPT ![dst] = @ \cup _chunks[source]]
    /\ owned' = [owned EXCEPT ![dst] =
                    [k \in OwnedProps |->
                        IF k \in TrackedAggProps /\ props[dst][k] # props[source][k]
                        THEN AggStored(owned[dst][k], owned[source][k])
                        ELSE owned[dst][k]]]
    /\ last' = Op("copy", dst, source, "", TRUE, "")
    /\ UNCHANGED <<_uniformCache, parameters, _activeParams,
                   _activeLightingParams, _params, onUpdateShader,
                   programCache, passEmitted, raVars, callerObjects, standard, _props>>

\* a reset() that flags the shader dirty
DirtyAfterReset_Set(d) == TRUE

\* the value reset() leaves in _dirtyShader
DirtyAfterReset(d) == d

\* material.reset()
Reset(m) ==
    /\ props' = [props EXCEPT ![m] = Defaults]
    /\ _chunks' = [_chunks EXCEPT ![m] = {}]
    /\ _uniformCache' = [_uniformCache EXCEPT ![m] = {}]
    /\ _dirtyShader' = [_dirtyShader EXCEPT ![m] = DirtyAfterReset(@)]
    /\ owned' = [owned EXCEPT ![m] = [name \in OwnedProps |-> Own(m, name)]]
    /\ last' = Op("reset", m, "", "", TRUE, "")
    /\ UNCHANGED <<parameters, _activeParams, _activeLightingParams, _params,
                   onUpdateShader, programCache, destroyed, passEmitted,
                   raVars, callerObjects, standard, _props>>

-----------------------------------------------------------------------------
(* The state after construction *)

\* new RenderAction()
NewRenderAction ==
    [layerIndex |-> 0,
     cameraIndex |-> 0,
     camera |-> Null,
     renderTarget |-> Null,
     lightClusters |-> Null,
     clearColor |-> FALSE,
     clearDepth |-> FALSE,
     clearStencil |-> FALSE,
     triggerPostprocess |-> FALSE,
     firstCameraUse |-> FALSE,
     lastCameraUse |-> FALSE,
     directionalLightsSet |-> {},
     directionalLights |-> <<>>,
     directionalLightsIndices |-> <<>>,
     viewBindGroups |-> <<>>,
     \* the identity of the Set and of the three arrays the fields refer to
     objects |-> [directionalLightsSet |-> "set1", directionalLights |-> "array1",
                  directionalLightsIndices |-> "array2", viewBindGroups |-> "array3"]]

\* the directional lights of the model and their castShadows flag
Lights == {"sunA", "sunB", "lampC"}
castShadows(light) == light # "lampC"

\* the layers of the model: layer._splitLights[LIGHTTYPE_DIRECTIONAL]
Layers == {"world", "ui"}
_splitLights(layer) ==
    CASE layer = "world" -> <<"sunA", "sunB">>
      [] layer = "ui" -> <<"sunB", "lampC">>

\* array.indexOf(x): the first position of x, counted from 0, or -1
IndexOf(array, x) ==
    IF \E i \in DOMAIN array : array[i] = x
    THEN (CHOOSE i \in DOMAIN array :
             array[i] = x /\ \A j \in DOMAIN array : array[j] = x => i <= j) - 1
    ELSE -1

\* CollectStep without the directionalLightsSet.has(light) test
CollectStep_NoDedup(r, light, allLights) ==
    [r EXCEPT !.directionalLightsSet = @ \cup {light},
              !.directionalLights = Append(@, light),
              !.directionalLightsIndices = Append(@, IndexOf(allLights, light))]

\* lines 111-119: what collectDirectionalLights does for a light found in a layer
CollectStep(r, light, allLights) ==
    IF light \notin r.directionalLightsSet
    THEN [r EXCEPT !.directionalLightsSet = @ \cup {light},
                   !.directionalLights = Append(@, light),
                   !.directionalLightsIndices = Append(@, IndexOf(allLights, light))]
    ELSE r

\* CollectLayers looking at the first layer of cameraLayers only
CollectLayers_FirstLayerOnly(r, light, cameraLayers, allLights, l) ==
    IF l > Len(cameraLayers) THEN r
    ELSE IF IndexOf(_splitLights(cameraLayers[l]), light) >= 0
         THEN CollectStep(r, light, allLights) ELSE r

\* lines 107-121: the loop over cameraLayers for one light, from position l
RECURSIVE CollectLayers(_, _, _, _, _)
CollectLayers(r, light, cameraLayers, allLights, l) ==
    IF l > Len(cameraLayers) THEN r
    ELSE CollectLayers(
            IF IndexOf(_splitLights(cameraLayers[l]), light) >= 0
            THEN CollectStep(r, light, allLights) ELSE r,
            light, cameraLayers, allLights, l + 1)

\* lines 102-123: the loop over dirLights, from position i
RECURSIVE CollectLights(_, _, _, _, _)
CollectLights(r, cameraLayers, dirLights, allLights, i) ==
    IF i > Len(dirLights) THEN r
    ELSE CollectLights(
            IF castShadows(dirLights[i])
            THEN CollectLayers(r, dirLights[i], cameraLayers, allLights, 1) ELSE r,
            cameraLayers, dirLights, allLights, i + 1)

\* collectDirectionalLights without lines 98-100: it adds to what r holds
Collected_KeepsContents(r, cameraLayers, dirLights, allLights) ==
    CollectLights(r, cameraLayers, dirLights, allLights, 1)

\* lines 98-123: the render action r after collectDirectionalLights ran on it
Collected(r, cameraLayers, dirLights, allLights) ==
    CollectLights([r EXCEPT !.directionalLightsSet = {},
                            !.directionalLights = <<>>,
                            !.directionalLightsIndices = <<>>],
                  cameraLayers, dirLights, allLights, 1)

\* renderAction.collectDirectionalLights(cameraLayers, dirLights, allLights)
CollectDirectionalLights(cameraLayers, dirLights, allLights) ==
    /\ ra' = Collected(ra, cameraLayers, dirLights, allLights)
    /\ raCall' = [op |-> "collectDirectionalLights", allLights |-> allLights]
    /\ UNCHANGED <<matVars, layerComposition>>

\* renderAction.collectDirectionalLights called with the arguments raCall holds
CollectPending ==
    /\ raCall.op = "call"
    /\ ra' = Collected(ra, raCall.cameraLayers, raCall.dirLights, raCall.allLights)
    /\ raCall' = [raCall EXCEPT !.op = "collectDirectionalLights"]
    /\ UNCHANGED <<matVars, layerComposition>>

\* a second renderAction.collectDirectionalLights with the arguments of the
\* call before
CollectAgain ==
    /\ raCall.op = "collectDirectionalLights"
    /\ ra' = Collected(ra, raCall.cameraLayers, raCall.dirLights, raCall.allLights)
    /\ raCall' = [raCall EXCEPT !.op = "collectDirectionalLights again"]
    /\ UNCHANGED <<matVars, layerComposition>>

\* reset() or destroy() putting a new empty container in the field
Emptied_NewObject(object) == "new " \o object

\* set.clear() and array.length = 0 empty the object the field refers to
Emptied(object) == object

\* renderAction.reset()
RenderActionReset ==
    /\ ra' = [ra EXCEPT !.lightClusters = Null,
                        !.directionalLightsSet = {},
                        !.directionalLights = <<>>,
                        !.directionalLightsIndices = <<>>,
                        !.objects.directionalLightsSet = Emptied(@),
                        !.objects.directionalLights = Emptied(@),
                        !.objects.directionalLightsIndices = Emptied(@)]
    /\ raCall' = [raCall EXCEPT !.op = "reset"]
    /\ UNCHANGED <<matVars, layerComposition>>

\* destroy() leaving the bind groups in the array
AfterForEach_Kept(viewBindGroups) == viewBindGroups

\* line 71: this.viewBindGroups.length = 0
AfterForEach(viewBindGroups) == <<>>

\* the destroy() calls lines 67-70 make for the bind groups from position i
\* on, in order
RECURSIVE DestroyCalls(_, _)
DestroyCalls(viewBindGroups, i) ==
    IF i > Len(viewBindGroups) THEN <<>>
    ELSE <<viewBindGroups[i] \o ".defaultUniformBuffer", viewBindGroups[i]>>
         \o DestroyCalls(viewBindGroups, i + 1)

\* renderAction.destroy(): every view bind group and its uniform buffer is
\* destroyed, and the array emptied
RenderActionDestroy ==
    /\ ra' = [ra EXCEPT !.viewBindGroups = AfterForEach(@),
                        !.objects.viewBindGroups = Emptied(@)]
    /\ destroyed' = destroyed
                    \cup {ra.viewBindGroups[i] : i \in DOMAIN ra.viewBindGroups}
                    \cup {ra.viewBindGroups[i] \o ".defaultUniformBuffer" :
                             i \in DOMAIN ra.viewBindGroups}
    /\ raCall' = [op |-> "destroy", allLights |-> raCall.allLights,
                  destroys |-> DestroyCalls(ra.viewBindGroups, 1)]
    /\ UNCHANGED <<props, _dirtyShader, _chunks, _uniformCache, parameters,
                   _activeParams, _activeLightingParams, _params, onUpdateShader,
                   programCache, passEmitted, last, heapVars, standard, _props,
                   layerComposition>>

\* the cameras, render targets and clusters the owner of the render action
\* can put in its fields
RenderActionSetups ==
    {[layerIndex |-> 1, cameraIndex |-> 0, camera |-> "cameraA",
      renderTarget |-> Null, lightClusters |-> "clustersA",
      clearColor |-> TRUE, clearDepth |-> TRUE, clearStencil |-> FALSE,
      triggerPostprocess |-> FALSE, firstCameraUse |-> TRUE, lastCameraUse |-> FALSE],
     [layerIndex |-> 0, cameraIndex |-> 1, camera |-> "cameraB",
      renderTarget |-> "targetA", lightClusters |-> Null,
      clearColor |-> FALSE, clearDepth |-> FALSE, clearStencil |-> TRUE,
      triggerPostprocess |-> TRUE, firstCameraUse |-> FALSE, lastCameraUse |-> TRUE]}

\* the owner of the render action assigns its public fields (lines 18-49)
SetupRenderAction(setup) ==
    /\ ra' = [name \in DOMAIN ra |->
                 IF name \in DOMAIN setup THEN setup[name] ELSE ra[name]]
    /\ raCall' = [raCall EXCEPT !.op = "setup"]
    /\ UNCHANGED <<matVars, layerComposition>>

\* bind groups the renderer creates for the views of a render action
BindGroups == {"bindGroupA", "bindGroupB", "bindGroupC"}

\* renderAction.viewBindGroups.push(bindGroup), for a bind group just created
PushViewBindGroup(bindGroup) ==
    /\ bindGroup \notin destroyed
    /\ \A i \in DOMAIN ra.viewBindGroups : ra.viewBindGroups[i] # bindGroup
    /\ ra' = [ra EXCEPT !.viewBindGroups = Append(@, bindGroup)]
    /\ raCall' = [raCall EXCEPT !.op = "push"]
    /\ UNCHANGED <<matVars, layerComposition>>

\* a LayerComposition with no layers
EmptyComposition == [layerList |-> <<>>, subLayerEnabled |-> <<>>, _renderActions |-> <<>>]

\* isLayerEnabled returning the layer's own flag only
LayerEnabledResult_LayerOnly(layer, subLayerEnabled) == layer.enabled

\* line 92: layer.enabled && layerComposition.subLayerEnabled[this.layerIndex]
LayerEnabledResult(layer, subLayerEnabled) == layer.enabled /\ subLayerEnabled

\* renderAction.isLayerEnabled(layerComposition), for a render action whose
\* layerIndex is an index of layerList (counted from 0)
IsLayerEnabledOf(r, composition) ==
    LayerEnabledResult(composition.layerList[r.layerIndex + 1],
                       composition.subLayerEnabled[r.layerIndex + 1])

\* renderAction.isLayerEnabled(layerComposition)
IsLayerEnabled ==
    /\ raCall.op # "isLayerEnabled"
    /\ ra.layerIndex < Len(layerComposition.layerList)
    /\ raCall' = [op |-> "isLayerEnabled", allLights |-> raCall.allLights,
                  result |-> IsLayerEnabledOf(ra, layerComposition)]
    /\ UNCHANGED <<matVars, ra, layerComposition>>

\* new StandardMaterial() for every material of the model, and the
\* module-wide Set _params
MaterialsInit ==
    /\ props = [m \in Materials |-> Defaults]
    /\ _dirtyShader = [m \in Materials |-> TRUE]
    /\ _chunks = [m \in Materials |-> {}]
    /\ _uniformCache = [m \in Materials |-> {}]
    /\ parameters = [m \in Materials |-> {}]
    /\ _activeParams = [m \in Materials |-> {}]
    /\ _activeLightingParams = [m \in Materials |-> {}]
    /\ _params = {}
    /\ onUpdateShader = [m \in Materials |-> Null]
    /\ programCache = {}
    /\ destroyed = {}
    /\ passEmitted = [m \in Materials |-> {}]
    /\ last = Op("new", "none", "", "", TRUE, "")
    /\ owned = [m \in Materials |-> [name \in OwnedProps |-> Own(m, name)]]
    /\ standard = [optionsContext |-> EmptyOptions, optionsContextMin |-> EmptyOptions]
    /\ _props = _defineMaterialProps.registry
    /\ callerObjects = [v \in CallerObjects |->
                           IF v = "colorV" THEN Color(Num(1, 1), Num(1, 1), Num(1, 1))
                           ELSE Vec2(Num(2, 1), Num(1, 1))]

\* the materials and one RenderAction, as constructed
Init ==
    /\ MaterialsInit
    /\ ra = NewRenderAction
    /\ raCall = [op |-> "new", allLights |-> <<>>]
    /\ layerComposition = EmptyComposition

-----------------------------------------------------------------------------
(* Spec: every operation of StandardMaterial. matA goes through all of     *)
(* them; matB is the source copy() reads.                                  *)

Half == Num(1, 2)
One == Num(1, 1)

SpecValues(name) ==
    CASE name = "useFog" -> BOOLEAN
      [] name = "alphaTest" -> {0, Half}
      [] name = "emissive" -> {Color(0, 0, 0), Color(One, One, One)}

SpecProps(m) ==
    IF m = "matA" THEN {"useFog", "alphaTest", "emissive"} ELSE {"emissive"}

SpecScenes == {Scene(Null, "skybox", FALSE)}
SpecPasses == {"SHADER_FORWARD", "SHADER_DEPTH"}

Next ==
    \/ \E m \in Materials, name \in Tracked :
          /\ name \in SpecProps(m)
          /\ \E value \in SpecValues(name) : SetProp(m, name, value)
    \/ \E name \in Tracked :
          /\ name \in SpecProps("matA")
          /\ GetProp("matA", name)
    \/ \E name \in Tracked :
          /\ name \in SpecProps("matA") \cap AggProps
          /\ \E value \in SpecValues(name) : MutateInPlace("matA", name, value)
    \/ \E value \in {{}, {"diffusePS"}} : SetChunks("matB", value)
    \/ GetChunks("matA")
    \/ UpdateUniforms("matA")
    \/ \E scene \in SpecScenes : UpdateEnvUniforms("matA", scene)
    \/ \E scene \in SpecScenes, pass \in SpecPasses,
          outcome \in {"ok", "builderThrows", "programThrows"} :
          GetShaderVariant("matA", scene, pass, "formatA", outcome)
    \/ Copy("matA", "matB")
    \/ Reset("matA")

Spec == Init /\ [][Next]_vars

-----------------------------------------------------------------------------
(* Claims checked under Spec *)

\* C1: a property change whose dirty predicate returned true leaves
\* _dirtyShader true, and no operation other than a getShaderVariant call that
\* returns ever takes _dirtyShader of a material from true to false.
C1_OnlyVariantClears ==
    [][/\ (last'.op = "set" /\ last'.note = "dirties") => _dirtyShader'[last'.mat]
       /\ \A m \in Materials :
             (_dirtyShader[m] /\ ~_dirtyShader'[m]) =>
                 (last'.op = "getShaderVariant" /\ last'.mat = m /\ last'.ok)]_vars

\* reset() ran on a material whose shader was dirty, and it still is
C1_Witness ==
    /\ last.op = "reset" /\ _dirtyShader[last.mat]
    /\ programCache # {}

\* C2: when getShaderVariant returns a program, _dirtyShader is false
\* afterwards, for every pass.
C2_VariantClears ==
    (last.op = "getShaderVariant" /\ last.ok) => ~_dirtyShader[last.mat]

\* getShaderVariant returned a program for a depth pass
C2_Witness ==
    last.op = "getShaderVariant" /\ last.ok /\ last.name = "SHADER_DEPTH"

\* C6: updateUniforms does not change _dirtyShader.
C6_UpdateUniformsKeepsDirty ==
    [][last'.op = "updateUniforms" =>
          _dirtyShader'[last'.mat] = _dirtyShader[last'.mat]]_vars

-----------------------------------------------------------------------------
(* SpecSetters: the registered setters and getters of one material, over a *)
(* property of each kind _defineMaterialProps registers                    *)

SettersValues(name) ==
    CASE name = "useFog" -> BOOLEAN
      [] name = "alphaTest" -> {0, Half, One}
      [] name = "lightMap" -> {Null, "texA", "texB", "texC"}
      [] name = "cubeMapProjectionBox" -> {Null, "objA", "objB"}
      [] name = "emissive" -> {Color(0, 0, 0), Color(One, One, One)}
      [] name = "lightMapTiling" -> {Vec2(One, One), Vec2(2 * One, One)}
      [] name = "diffuseMapRotation" -> {0, 90 * One}

SettersProps ==
    {"useFog", "alphaTest", "lightMap", "cubeMapProjectionBox", "emissive",
     "lightMapTiling", "diffuseMapRotation"}

NextSetters ==
    \/ \E name \in SettersProps :
          \E value \in SettersValues(name) : SetProp("matA", name, value)
    \/ \E name \in SettersProps : GetProp("matA", name)
    \/ \E name \in SettersProps \cap AggProps :
          \E value \in SettersValues(name) : MutateInPlace("matA", name, value)
    \/ GetShaderVariant("matA", Scene(Null, Null, FALSE), "SHADER_FORWARD", "formatA", "ok")

SpecSetters == Init /\ [][NextSetters]_vars

\* the properties registered without a dirty predicate of their own
DefaultPredicateProps == TrackedProps \ (FloatProps \cup ObjectProps \cup MapProps)

\* C3: assigning a value property a value === its current one, or an aggregate
\* property a value that equals() its current one, changes neither
\* _dirtyShader nor the stored value.
C3_SameValueIsNoOp ==
    [][(last'.op = "set" /\ last'.name \in TrackedProps
        /\ props[last'.mat][last'.name] = last'.arg) =>
          (_dirtyShader' = _dirtyShader /\ props' = props)]_vars

\* an aggregate property of a clean material was assigned an equal value
C3_Witness ==
    /\ last.op = "set" /\ last.note = "same" /\ last.name \in AggProps
    /\ ~_dirtyShader[last.mat]

\* C4: assigning a different value stores it whatever the dirty predicate
\* returned, and leaves _dirtyShader true when the predicate returned true.
C4_DifferentValueStored ==
    (last.op = "set" /\ last.name \in TrackedProps /\ last.note # "same") =>
        /\ props[last.mat][last.name] = last.arg
        /\ last.note = "dirties" => _dirtyShader[last.mat]

\* a texture property went from unbound to bound: its predicate returned true
C4_Witness ==
    /\ last.op = "set" /\ last.name = "lightMap" /\ last.note = "dirties"
    /\ props[last.mat]["lightMap"] = "texA" /\ _dirtyShader[last.mat]

\* C5: for a property registered without a dirty predicate, assigning any
\* value different from the current one sets _dirtyShader.
C5_DefaultPredicateDirties ==
    [][(last'.op = "set" /\ last'.name \in DefaultPredicateProps
        /\ props[last'.mat][last'.name] # last'.arg) =>
          _dirtyShader'[last'.mat]]_vars

\* a flag of a material was assigned a different value
C5_Witness ==
    /\ last.op = "set" /\ last.name = "useFog" /\ last.note = "dirties"
    /\ _dirtyShader[last.mat]

-----------------------------------------------------------------------------
(* SpecParams: property changes and updateUniforms passes of one material, *)
(* over the box projection and the clear coat                              *)

ParamsValues(name) ==
    CASE name = "cubeMapProjection" -> {"CUBEPROJ_NONE", "CUBEPROJ_BOX"}
      [] name = "cubeMapProjectionBox" -> {Null, "objA"}
      [] name = "clearCoat" -> {0, One}
      [] name = "alphaTest" -> {0, Half}

ParamsProps == {"cubeMapProjection", "cubeMapProjectionBox", "clearCoat", "alphaTest"}

NextParams ==
    \/ \E name \in ParamsProps :
          \E value \in ParamsValues(name) : SetProp("matA", name, value)
    \/ UpdateUniforms("matA")

SpecParams == Init /\ [][NextParams]_vars

\* C7: two updateUniforms calls in succession on a material, nothing in
\* between, leave the same _activeParams and the same keys in parameters after
\* the second as after the first.
C7_RepeatedPassIsStable ==
    [][(/\ last.op = "updateUniforms" /\ last.ok
        /\ last'.op = "updateUniforms" /\ last'.ok /\ last'.mat = last.mat) =>
          /\ _activeParams'[last.mat] = _activeParams[last.mat]
          /\ parameters'[last.mat] = parameters[last.mat]]_vars

\* C8: a parameter name emitted by one updateUniforms pass of a material and
\* not by the next is not a key of parameters after the later pass.
C8_DroppedParameterUnbound ==
    [][(last'.op = "updateUniforms" /\ last'.ok) =>
          \A P \in passEmitted[last'.mat] \ passEmitted'[last'.mat] :
              P \notin parameters'[last'.mat]]_vars

-----------------------------------------------------------------------------
(* SpecMaps: one texture slot, its transform properties, and updateUniforms *)

MapsValues(name) ==
    CASE name = "diffuseMap" -> {Null, "texA"}
      [] name = "diffuseMapTiling" -> {Vec2(One, One), Vec2(2 * One, One), Vec2(One, 2 * One)}
      [] name = "diffuseMapOffset" -> {Vec2(0, 0), Vec2(Half, 0), Vec2(0, Half)}
      [] name = "diffuseMapRotation" -> {0, 90 * One}

MapsProps == {"diffuseMap", "diffuseMapTiling", "diffuseMapOffset", "diffuseMapRotation"}

NextMaps ==
    \/ \E name \in MapsProps :
          \E value \in MapsValues(name) : SetProp("matA", name, value)
    \/ \E name \in MapsProps \cap AggProps :
          \E value \in MapsValues(name) : MutateInPlace("matA", name, value)
    \/ UpdateUniforms("matA")

SpecMaps == Init /\ [][NextMaps]_vars

\* C9: for every 2D texture slot whose map is bound, updateUniforms emits
\* texture_<slot>Map, and emits texture_<slot>MapTransform0 and
\* texture_<slot>MapTransform1 exactly when tiling is not (1,1) or offset is not
\* (0,0) or rotation is not 0.
C9_MapParameters ==
    (last.op = "updateUniforms" /\ last.ok) =>
        LET p == AllProps(props[last.mat]) IN
        \A slot \in _matTex2D :
            LET nonIdentity ==
                    \/ p[slot \o "MapTiling"] # Vec2(One, One)
                    \/ p[slot \o "MapOffset"] # Vec2(0, 0)
                    \/ p[slot \o "MapRotation"] # 0
            IN Truthy(p[slot \o "Map"]) =>
                /\ ("texture_" \o slot \o "Map") \in passEmitted[last.mat]
                /\ ("texture_" \o slot \o "MapTransform0") \in passEmitted[last.mat]
                      <=> nonIdentity
                /\ ("texture_" \o slot \o "MapTransform1") \in passEmitted[last.mat]
                      <=> nonIdentity

\* a pass over a bound map whose rotation alone differs from the identity
C9_Witness ==
    /\ last.op = "updateUniforms" /\ last.ok
    /\ props[last.mat]["diffuseMap"] = "texA"
    /\ props[last.mat]["diffuseMapTiling"] = Vec2(One, One)
    /\ props[last.mat]["diffuseMapOffset"] = Vec2(0, 0)
    /\ props[last.mat]["diffuseMapRotation"] # 0
    /\ "texture_diffuseMapTransform0" \in passEmitted[last.mat]

-----------------------------------------------------------------------------
(* SpecRA: one RenderAction through collectDirectionalLights, reset and    *)
(* destroy                                                                 *)

MaxDirLights == 2
MaxLayers == 2

\* the arrays of at most n elements of S
ArraysUpTo(S, n) == UNION {[1..k -> S] : k \in 0..n}

\* an array without repeated elements
NoDuplicates(array) ==
    \A i, j \in DOMAIN array : array[i] = array[j] => i = j

\* LayerComposition._lights: some of the lights, each once, in any order
AllLightsArrays == {a \in ArraysUpTo(Lights, Cardinality(Lights)) : NoDuplicates(a)}

NextRA ==
    \/ \E cameraLayers \in ArraysUpTo(Layers, MaxLayers),
          dirLights \in ArraysUpTo(Lights, MaxDirLights),
          allLights \in AllLightsArrays :
          CollectDirectionalLights(cameraLayers, dirLights, allLights)
    \/ RenderActionReset
    \/ RenderActionDestroy

SpecRA == Init /\ [][NextRA]_vars

\* C10: after any sequence of collectDirectionalLights, reset and destroy,
\* directionalLights has no duplicates, holds exactly the members of
\* directionalLightsSet, directionalLightsIndices is as long, and each index is
\* allLights.indexOf of the light at its position, for the allLights of the
\* most recent collectDirectionalLights.
C10_DirectionalLightsConsistent ==
    /\ NoDuplicates(ra.directionalLights)
    /\ {ra.directionalLights[i] : i \in DOMAIN ra.directionalLights}
          = ra.directionalLightsSet
    /\ Len(ra.directionalLightsIndices) = Len(ra.directionalLights)
    /\ \A i \in DOMAIN ra.directionalLights :
          ra.directionalLightsIndices[i]
             = IndexOf(raCall.allLights, ra.directionalLights[i])

\* two lights were collected, one of them missing from allLights, and the
\* render action was destroyed afterwards
C10_Witness ==
    /\ raCall.op = "destroy"
    /\ ra.directionalLights = <<"sunB", "sunA">>
    /\ ra.directionalLightsIndices = <<-1, 0>>

-----------------------------------------------------------------------------
(* SpecCollect: one collectDirectionalLights call, on a new RenderAction   *)
(* or on one that collected before, for every choice of its arguments      *)

\* a RenderAction that collected two lights in an earlier frame
UsedRenderAction ==
    Collected(NewRenderAction, <<"world">>, <<"sunB", "sunA">>, <<"sunA", "sunB">>)

InitCollect ==
    /\ MaterialsInit
    /\ ra \in {NewRenderAction, UsedRenderAction}
    /\ layerComposition = EmptyComposition
    /\ \E cameraLayers \in ArraysUpTo(Layers, MaxLayers),
          dirLights \in ArraysUpTo(Lights, MaxDirLights),
          allLights \in AllLightsArrays :
          raCall = [op |-> "call", cameraLayers |-> cameraLayers,
                    dirLights |-> dirLights, allLights |-> allLights]

NextCollect == CollectPending

SpecCollect == InitCollect /\ [][NextCollect]_vars

\* C11: after collectDirectionalLights(cameraLayers, dirLights, allLights) a
\* light is in directionalLights exactly when it occurs in dirLights, casts
\* shadows and is in the directional list of some layer of cameraLayers; the
\* lights are in the order of their first occurrence in dirLights, each once.
C11_CollectedLights ==
    raCall.op = "collectDirectionalLights" =>
        LET got == ra.directionalLights
            wanted == {L \in Lights :
                         /\ \E i \in DOMAIN raCall.dirLights : raCall.dirLights[i] = L
                         /\ castShadows(L)
                         /\ \E l \in DOMAIN raCall.cameraLayers :
                               \E k \in DOMAIN _splitLights(raCall.cameraLayers[l]) :
                                  _splitLights(raCall.cameraLayers[l])[k] = L}
        IN /\ {got[i] : i \in DOMAIN got} = wanted
           /\ \A i, j \in DOMAIN got :
                 i < j => IndexOf(raCall.dirLights, got[i]) < IndexOf(raCall.dirLights, got[j])

\* a call on a used render action where sunB is in both layers and occurs
\* before sunA in dirLights
C11_Witness ==
    /\ raCall.op = "collectDirectionalLights"
    /\ raCall.cameraLayers = <<"ui", "world">>
    /\ raCall.dirLights = <<"sunB", "sunA">>
    /\ ra.directionalLights = <<"sunB", "sunA">>
    /\ ra.directionalLightsIndices = <<-1, -1>>

-----------------------------------------------------------------------------
(* SpecAgg: aggregate properties of two materials assigned from objects    *)
(* the caller holds and from each other, with in-place changes, copy and   *)
(* reset                                                                   *)

AggNames == {"emissive", "lightMapTiling"}

AggValues(kind) ==
    IF kind = "emissive" \/ kind = "colorV"
    THEN {Color(0, 0, 0), Color(One, One, One)}
    ELSE {Vec2(One, One), Vec2(2 * One, One)}

NextAgg ==
    \/ \E m \in Materials, name \in AggNames :
          \E v \in CallerObjects \cup {Own(m2, name) : m2 \in Materials} :
             AssignObject(m, name, v)
    \/ \E v \in CallerObjects : \E value \in AggValues(v) : MutateCaller(v, value)
    \/ \E name \in AggNames : \E value \in AggValues(name) :
          MutateInPlace("matB", name, value)
    \/ Copy("matA", "matB")
    \/ Reset("matA")

SpecAgg == Init /\ [][NextAgg]_vars

\* C12: assigning an object v to an aggregate property leaves the material
\* storing the object it stored before, holding the components of v, and not
\* v; changing v in place afterwards, or the object another material stores,
\* does not change the material's value; no two fields share one object.
C12_OwnedAggregates ==
    [][/\ last'.op = "assign" =>
             /\ owned'[last'.mat][last'.name] = owned[last'.mat][last'.name]
             /\ owned'[last'.mat][last'.name] # last'.arg
             /\ props'[last'.mat][last'.name] = HeapValue(last'.arg)
       /\ last'.op = "mutateCaller" => props' = props
       /\ last'.op = "mutate" =>
             \A m \in Materials, name \in TrackedProps :
                <<m, name>> # <<last'.mat, last'.name>> =>
                    props'[m][name] = props[m][name]
       /\ \A m1, m2 \in Materials, n1, n2 \in TrackedAggProps :
             <<m1, n1>> # <<m2, n2>> => owned'[m1][n1] # owned'[m2][n2]]_vars

\* the caller changed its color in place after the color was assigned to a
\* material and copied from it to the other: both keep the assigned components
C12_Witness ==
    /\ last.op = "mutateCaller" /\ last.name = "colorV"
    /\ callerObjects["colorV"] = Color(0, 0, 0)
    /\ props["matA"]["emissive"] = Color(One, One, One)
    /\ props["matB"]["emissive"] = Color(One, One, One)
    /\ owned["matA"]["emissive"] = Own("matA", "emissive")

-----------------------------------------------------------------------------
(* SpecReads: reads of the colors and of a flag, the chunks accessors, and *)
(* getShaderVariant to clear the flag in between                           *)

NextReads ==
    \/ \E name \in ColorProps \cup {"useFog"} : GetProp("matA", name)
    \/ GetChunks("matA")
    \/ \E value \in {{}, {"diffusePS"}} : SetChunks("matA", value)
    \/ \E name \in {"useFog", "emissive"} :
          \E value \in SpecValues(name) : SetProp("matA", name, value)
    \/ \E pass \in SpecPasses :
          GetShaderVariant("matA", Scene(Null, Null, FALSE), pass, "formatA", "ok")

SpecReads == Init /\ [][NextReads]_vars

\* C13: reading a color property through its getter, and reading or assigning
\* chunks, leaves _dirtyShader true whatever it was, and a read changes no
\* property value.
C13_ReadsDirty ==
    [][/\ (last'.op = "get" /\ last'.name \in ColorProps) =>
             /\ _dirtyShader'[last'.mat]
             /\ props' = props /\ _chunks' = _chunks
       /\ last'.op = "getChunks" =>
             /\ _dirtyShader'[last'.mat]
             /\ props' = props /\ _chunks' = _chunks
       /\ last'.op = "setChunks" =>
             /\ _dirtyShader'[last'.mat]
             /\ props' = props]_vars

\* a color was read on a material for which a program had been fetched
C13_Witness ==
    /\ last.op = "get" /\ last.name = "sheen"
    /\ _dirtyShader[last.mat] /\ programCache # {}

\* C14: after the caller reads an aggregate property (a color, a Vec2 tiling
\* or offset) and changes the object in place, _dirtyShader is true.
C14_InPlaceMutationDirties ==
    last.op = "mutate" => _dirtyShader[last.mat]

-----------------------------------------------------------------------------
(* getShaderVariant: the builders, the hook and the program library *)

VariantHooks == {Null, "hookKeep", "hookA"}
VariantOutcomes == {"ok", "builderThrows", "hookThrows", "programThrows"}

NextVariant ==
    \/ \E hook \in VariantHooks : SetOnUpdateShader("matA", hook)
    \/ \E pass \in SpecPasses, outcome \in VariantOutcomes :
          GetShaderVariant("matA", Scene(Null, Null, FALSE), pass, "formatA", outcome)
    \/ \E value \in SpecValues("useFog") : SetProp("matA", "useFog", value)

SpecVariant == Init /\ [][NextVariant]_vars

\* the position of the call named c among the calls of the last operation,
\* 0 when it was not made
CallIndex(c) ==
    IF \E i \in 1..Len(last.calls) : last.calls[i].call = c
    THEN CHOOSE i \in 1..Len(last.calls) : last.calls[i].call = c
    ELSE 0

\* how many times the last operation made the call named c
CallCount(c) == Cardinality({i \in 1..Len(last.calls) : last.calls[i].call = c})

\* C15: a getShaderVariant call that reaches the program library has invoked
\* onUpdateShader exactly once when it is set, after the builder and before
\* getProgram, on the options the builder produced, and hands getProgram the
\* value the hook returned; with no hook it makes no hook call and hands
\* getProgram the built options.
C15_HookOnceBetweenBuilderAndLibrary ==
    (last.op = "getShaderVariant" /\ CallIndex("getProgram") > 0) =>
        LET hook == onUpdateShader[last.mat]
            built == last.calls[1].options
            passed == last.calls[CallIndex("getProgram")].options
        IN /\ last.calls[1].call \in {"updateRef", "updateMinRef"}
           /\ built = standard[VariantContext(last.name)]
           /\ IF hook # Null
              THEN /\ CallCount("onUpdateShader") = 1
                   /\ 1 < CallIndex("onUpdateShader")
                   /\ CallIndex("onUpdateShader") < CallIndex("getProgram")
                   /\ last.calls[CallIndex("onUpdateShader")].options = built
                   /\ passed = CallHook(hook, built)
              ELSE /\ CallCount("onUpdateShader") = 0
                   /\ passed = built

C15_Witness ==
    /\ last.op = "getShaderVariant" /\ last.ok
    /\ onUpdateShader[last.mat] = "hookA"
    /\ last.calls[3].options.hooked = "hookA"
    /\ last.calls[3].options # last.calls[1].options

BuilderPasses == {"SHADER_FORWARD", "SHADER_DEPTH", "SHADER_PICK", "SHADER_SHADOW"}

NextBuilders ==
    \/ \E pass \in BuilderPasses, outcome \in {"ok", "builderThrows"} :
          GetShaderVariant("matA", Scene(Null, Null, FALSE), pass, "formatA", outcome)
    \/ \E value \in SpecValues("useFog") : SetProp("matA", "useFog", value)

SpecBuilders == Init /\ [][NextBuilders]_vars

\* C16: each getShaderVariant call runs exactly one builder: updateMinRef,
\* on the minimal options context, exactly when the pass is SHADER_DEPTH,
\* SHADER_PICK or a shadow pass, and updateRef, on the full options context,
\* otherwise; a minimal build leaves the full options context as it was.
C16_MinimalPathForDepthPickShadow ==
    [][last'.op = "getShaderVariant" =>
          LET minimal == last'.name \in {"SHADER_DEPTH", "SHADER_PICK", "SHADER_SHADOW"}
          IN /\ CallCount("updateMinRef")' + CallCount("updateRef")' = 1
             /\ (CallCount("updateMinRef")' = 1) <=> minimal
             /\ minimal => /\ standard'.optionsContext = standard.optionsContext
                           /\ standard'.optionsContextMin \in
                                 {standard.optionsContextMin, last'.calls[1].options}
             /\ ~minimal => /\ standard'.optionsContextMin = standard.optionsContextMin
                            /\ standard'.optionsContext \in
                                  {standard.optionsContext, last'.calls[1].options}
             /\ last'.ok => standard'[VariantContext(last'.name)] = last'.calls[1].options]_vars

C16_Witness ==
    /\ last.op = "getShaderVariant" /\ last.name = "SHADER_PICK" /\ last.ok
    /\ standard.optionsContext.pass = "SHADER_FORWARD"
    /\ standard.optionsContextMin.pass = "SHADER_PICK"
    /\ last.calls[1].call = "updateMinRef"

\* C17: when the builder, the hook or getProgram raises an error during
\* getShaderVariant, the call ends with that error, returns no program, and
\* _dirtyShader is what it was before the call.
C17_ErrorKeepsDirtyShader ==
    [][(/\ last'.op = "getShaderVariant"
        /\ last'.note \in {"builderThrows", "hookThrows", "programThrows"}) =>
          /\ ~last'.ok
          /\ last'.arg = Null
          /\ _dirtyShader' = _dirtyShader
          /\ programCache' = programCache]_vars

C17_Witness ==
    /\ last.op = "getShaderVariant" /\ last.note = "programThrows"
    /\ ~_dirtyShader[last.mat]
    /\ onUpdateShader[last.mat] = "hookA"
    /\ Len(last.calls) = 3

CacheFormats == {"formatA", "formatB"}

NextCache ==
    \/ \E hook \in {Null, "hookA"} : SetOnUpdateShader("matA", hook)
    \/ \E m \in Materials, pass \in SpecPasses, format \in CacheFormats,
          outcome \in {"ok", "programThrows"} :
          GetShaderVariant(m, Scene(Null, Null, FALSE), pass, format, outcome)

SpecCache == Init /\ [][NextCache]_vars

\* C18: a getShaderVariant call returns the program the library holds under
\* the key made of the final options and the processing context; when an
\* earlier call, on any material, was given a program under an equal key, it
\* is that same program, and no key has a program generated twice.
C18_OneProgramPerKey ==
    [][(last'.op = "getShaderVariant" /\ last'.ok) =>
          LET program == last'.arg
              passed == last'.calls[Len(last'.calls)].options
          IN /\ program.key.options = passed
             /\ program \in programCache'
             /\ \A e \in programCache : e.key = program.key => e = program
             /\ \A e \in programCache' : e.generation = 1
             /\ \A e1, e2 \in programCache' : e1.key = e2.key => e1 = e2
             /\ programCache \subseteq programCache']_vars

\* matB is given the program generated for matA
C18_Witness ==
    /\ last.op = "getShaderVariant" /\ last.ok /\ last.mat = "matB"
    /\ ~_dirtyShader["matA"]
    /\ Cardinality(programCache) = 1

-----------------------------------------------------------------------------
(* the specular / metalness workflow and clear coat in updateUniforms *)

MetalValues(name) ==
    CASE name = "useMetalness" -> BOOLEAN
      [] name = "specularMap" -> {Null, "texA"}
      [] name = "specularTint" -> BOOLEAN
      [] name = "cubeMapProjection" -> {"CUBEPROJ_NONE", "CUBEPROJ_BOX"}
      [] name = "cubeMapProjectionBox" -> {Null, "objA"}

MetalProps == {"useMetalness", "specularMap", "specularTint",
               "cubeMapProjection", "cubeMapProjectionBox"}

NextMetal ==
    \/ \E name \in MetalProps :
          \E value \in MetalValues(name) : SetProp("matA", name, value)
    \/ UpdateUniforms("matA")

SpecMetal == Init /\ [][NextMetal]_vars

\* the parameters only the metalness workflow emits (lines 671-693)
MetalnessParams == {"material_metalness", "material_specularityFactor",
                    "material_sheen", "material_sheenGlossiness", "material_f0"}

\* C19: an updateUniforms pass with useMetalness false emits none of the
\* metalness parameters and emits material_specular exactly when specularMap
\* is unset or specularTint is true; after a pass that completed with
\* useMetalness false none of the metalness parameters is bound.
C19_SpecularWorkflow ==
    [][(last'.op = "updateUniforms" /\ ~props'[last'.mat]["useMetalness"]) =>
          LET m == last'.mat
              p == props'[m]
          IN /\ MetalnessParams \cap passEmitted'[m] = {}
             /\ "material_specular" \in passEmitted'[m]
                   <=> (~Truthy(p["specularMap"]) \/ p["specularTint"])
             /\ last'.ok => MetalnessParams \cap parameters'[m] = {}]_vars

\* the four parameters of lines 701-706
ClearCoatParams == {"material_clearCoat", "material_clearCoatGlossiness",
                    "material_clearCoatReflectivity", "material_clearCoatBumpiness"}

\* C20: an updateUniforms pass emits the four clear coat parameters when
\* clearCoat > 0 and none of them otherwise; after a pass that completed with
\* clearCoat 0 none of the four is bound.
C20_ClearCoatParameters ==
    [][last'.op = "updateUniforms" =>
          LET m == last'.mat
          IN IF props'[m]["clearCoat"] > 0
             THEN ClearCoatParams \subseteq passEmitted'[m]
             ELSE /\ ClearCoatParams \cap passEmitted'[m] = {}
                  /\ last'.ok => ClearCoatParams \cap parameters'[m] = {}]_vars

-----------------------------------------------------------------------------
(* the property registry after the module load, and later registrations *)

\* names a later definePropInternal call is given: every registered name and
\* two that are not registered
LaterNames == PropNames \cup {"customA", "customB"}

NextRegistry == \E name \in LaterNames : DefinePropInternal(name)

SpecRegistry == Init /\ [][NextRegistry]_vars

\* C21: _defineMaterialProps hands every property name to definePropInternal
\* exactly once and the load completes with each accessor installed once; a
\* later definePropInternal call for a registered name raises an error and
\* leaves the registry as it was, so no accessor is ever installed twice.
C21_RegisteredOnce ==
    /\ [](/\ \A i, j \in DOMAIN DefinePropCalls :
                DefinePropCalls[i] = DefinePropCalls[j] => i = j
          /\ {DefinePropCalls[i] : i \in DOMAIN DefinePropCalls} = PropNames
          /\ PropNames \subseteq DOMAIN _props
          /\ \A name \in DOMAIN _props : _props[name] = 1)
    /\ [][(last'.op = "definePropInternal" /\ last'.name \in DOMAIN _props) =>
             (~last'.ok /\ _props' = _props)]_vars

C21_Witness ==
    /\ last.op = "definePropInternal" /\ last.name = "diffuseMapTiling" /\ ~last.ok
    /\ "customA" \in DOMAIN _props

-----------------------------------------------------------------------------
(* a render action that is set up, used, reset and destroyed *)

NextReuse ==
    \/ \E setup \in RenderActionSetups : SetupRenderAction(setup)
    \/ \E bindGroup \in BindGroups : PushViewBindGroup(bindGroup)
    \/ CollectDirectionalLights(<<"world">>, <<"sunB", "sunA">>, <<"sunA", "sunB", "lampC">>)
    \/ RenderActionReset
    \/ RenderActionDestroy

SpecReuse == Init /\ [][NextReuse]_vars

\* the fields reset() has no business with
KeptByReset ==
    {"layerIndex", "cameraIndex", "camera", "renderTarget", "clearColor",
     "clearDepth", "clearStencil", "triggerPostprocess", "firstCameraUse",
     "lastCameraUse", "viewBindGroups"}

\* C22: reset() leaves directionalLightsSet, directionalLights and
\* directionalLightsIndices empty and the same objects as before, sets
\* lightClusters to null, and changes none of the other fields.
C22_ResetClearsLights ==
    [][raCall'.op = "reset" =>
          /\ ra'.directionalLightsSet = {}
          /\ ra'.directionalLights = <<>>
          /\ ra'.directionalLightsIndices = <<>>
          /\ ra'.objects = ra.objects
          /\ ra'.lightClusters = Null
          /\ \A name \in KeptByReset : ra'[name] = ra[name]]_vars

C22_Witness ==
    /\ raCall.op = "reset"
    /\ ra.camera = "cameraA" /\ ra.firstCameraUse /\ ra.clearColor
    /\ ra.viewBindGroups = <<"bindGroupB", "bindGroupA">>
    /\ ra.directionalLights = <<>>

\* C23: destroy() destroys, for every bind group of viewBindGroups in turn,
\* its default uniform buffer and then the bind group, each once, and leaves
\* viewBindGroups empty; nothing it destroys was destroyed before, so a
\* second destroy() destroys nothing.
C23_DestroyOncePerBindGroup ==
    [][raCall'.op = "destroy" =>
          LET groups == ra.viewBindGroups
              calls == raCall'.destroys
          IN /\ Len(calls) = 2 * Len(groups)
             /\ \A i \in DOMAIN groups :
                   /\ calls[2 * i - 1] = groups[i] \o ".defaultUniformBuffer"
                   /\ calls[2 * i] = groups[i]
             /\ \A i, j \in DOMAIN calls : calls[i] = calls[j] => i = j
             /\ \A i \in DOMAIN calls : calls[i] \notin destroyed
             /\ ra'.viewBindGroups = <<>>
             /\ raCall.op = "destroy" => calls = <<>>]_vars

C23_Witness ==
    /\ raCall.op = "destroy"
    /\ raCall.destroys = <<"bindGroupC.defaultUniformBuffer", "bindGroupC">>
    /\ "bindGroupA" \in destroyed
    /\ ra.viewBindGroups = <<>>

-----------------------------------------------------------------------------
(* layer compositions *)

MaxCompositionLayers == 2

Cameras == {"cameraA", "cameraB"}

\* the camera lists a layer can have: no camera twice
CameraLists == {c \in ArraysUpTo(Cameras, Cardinality(Cameras)) : NoDuplicates(c)}

CompositionLayers == [enabled : BOOLEAN, cameras : CameraLists]

\* the compositions of n layers
CompositionsOf(n) ==
    {[layerList |-> layerList, subLayerEnabled |-> subLayerEnabled,
      _renderActions |-> <<>>] :
        layerList \in [1..n -> CompositionLayers],
        subLayerEnabled \in [1..n -> BOOLEAN]}

Compositions == UNION {CompositionsOf(n) : n \in 1..MaxCompositionLayers}

\* a render action of layer 0 or 1 and a composition that has that layer
InitEnabled ==
    /\ MaterialsInit
    /\ raCall = [op |-> "new", allLights |-> <<>>]
    /\ layerComposition \in Compositions
    /\ \E layerIndex \in 0..(MaxCompositionLayers - 1) :
          /\ layerIndex < Len(layerComposition.layerList)
          /\ ra = [NewRenderAction EXCEPT !.layerIndex = layerIndex]

NextEnabled == IsLayerEnabled

SpecEnabled == InitEnabled /\ [][NextEnabled]_vars

\* C26: isLayerEnabled(composition) is true exactly when the layer at
\* layerIndex is enabled and its sub-layer flag is true, and it changes
\* neither the render action nor the composition.
C26_LayerAndSubLayerEnabled ==
    [][raCall'.op = "isLayerEnabled" =>
          /\ raCall'.result <=>
                (/\ layerComposition.layerList[ra.layerIndex + 1].enabled = TRUE
                 /\ layerComposition.subLayerEnabled[ra.layerIndex + 1] = TRUE)
          /\ ra' = ra
          /\ layerComposition' = layerComposition]_vars

C26_Witness ==
    /\ raCall.op = "isLayerEnabled" /\ ~raCall.result
    /\ ra.layerIndex = 1
    /\ layerComposition.layerList[2].enabled
    /\ ~layerComposition.subLayerEnabled[2]
    /\ layerComposition.layerList[1].enabled /\ layerComposition.subLayerEnabled[1]

-----------------------------------------------------------------------------
(* the layer composition scheduler: the render actions of a frame *)

\* a scheduler that emits the render actions of every layer
LayerScheduled_Always(composition, i) == TRUE

\* a layer contributes render actions when isLayerEnabled is true for a
\* render action of that layer
LayerScheduled(composition, i) ==
    IsLayerEnabledOf([NewRenderAction EXCEPT !.layerIndex = i - 1], composition)

\* the render actions of layer i: one per camera of the layer, in the order
\* the layer declares its cameras
LayerActions(composition, i) ==
    [k \in DOMAIN composition.layerList[i].cameras |->
        [NewRenderAction EXCEPT !.layerIndex = i - 1,
                                !.cameraIndex = k - 1,
                                !.camera = composition.layerList[i].cameras[k]]]

\* the render actions of the layers from i on, in layer order
RECURSIVE ScheduledActions(_, _)
ScheduledActions(composition, i) ==
    IF i > Len(composition.layerList) THEN <<>>
    ELSE (IF LayerScheduled(composition, i) THEN LayerActions(composition, i) ELSE <<>>)
         \o ScheduledActions(composition, i + 1)

\* a scan that looks for the camera among the actions of the same layer only
IsFirstCameraUse_PerLayer(actions, j) ==
    \A i \in 1..(j - 1) :
        actions[i].layerIndex = actions[j].layerIndex =>
            actions[i].camera # actions[j].camera

\* action j is the first of the sequence that uses its camera
IsFirstCameraUse(actions, j) ==
    \A i \in 1..(j - 1) : actions[i].camera # actions[j].camera

\* action j is the last of the sequence that uses its camera
IsLastCameraUse(actions, j) ==
    \A i \in (j + 1)..Len(actions) : actions[i].camera # actions[j].camera

\* the scan over the full sequence that sets firstCameraUse and lastCameraUse
FlagCameraUse(actions) ==
    [j \in DOMAIN actions |->
        [actions[j] EXCEPT !.firstCameraUse = IsFirstCameraUse(actions, j),
                           !.lastCameraUse = IsLastCameraUse(actions, j)]]

\* the scheduler rebuilds the render actions of the composition
Schedule ==
    /\ raCall.op # "schedule"
    /\ layerComposition' =
          [layerComposition EXCEPT
              !._renderActions = FlagCameraUse(ScheduledActions(layerComposition, 1))]
    /\ raCall' = [raCall EXCEPT !.op = "schedule"]
    /\ UNCHANGED <<matVars, ra>>

InitSchedule ==
    /\ MaterialsInit
    /\ ra = NewRenderAction
    /\ raCall = [op |-> "new", allLights |-> <<>>]
    /\ layerComposition \in Compositions

NextSchedule == Schedule

SpecSchedule == InitSchedule /\ [][NextSchedule]_vars

\* the positions in the scheduled sequence of the actions that use camera c
UsesOf(c) ==
    {j \in DOMAIN layerComposition._renderActions :
        layerComposition._renderActions[j].camera = c}

\* C24: in the scheduled sequence, for every camera that appears,
\* firstCameraUse is true on exactly one action, the first that uses the
\* camera, and lastCameraUse on exactly one, the last that uses it.
C24_FirstAndLastCameraUse ==
    raCall.op = "schedule" =>
        \A c \in Cameras : \A j \in UsesOf(c) :
            LET action == layerComposition._renderActions[j]
            IN /\ action.firstCameraUse <=> (\A i \in UsesOf(c) : j <= i)
               /\ action.lastCameraUse <=> (\A i \in UsesOf(c) : i <= j)

C24_Witness ==
    /\ raCall.op = "schedule"
    /\ Len(layerComposition._renderActions) = 4
    /\ UsesOf("cameraA") = {1, 4}
    /\ layerComposition._renderActions[1].firstCameraUse
    /\ ~layerComposition._renderActions[1].lastCameraUse
    /\ layerComposition._renderActions[4].lastCameraUse
    /\ layerComposition._renderActions[2].firstCameraUse
    /\ ~layerComposition._renderActions[3].firstCameraUse

\* how many cameras the enabled layers from i on have
RECURSIVE EnabledCameraCount(_)
EnabledCameraCount(i) ==
    IF i > Len(layerComposition.layerList) THEN 0
    ELSE (IF /\ layerComposition.layerList[i].enabled
             /\ layerComposition.subLayerEnabled[i]
          THEN Len(layerComposition.layerList[i].cameras) ELSE 0)
         + EnabledCameraCount(i + 1)

\* C25: the scheduled sequence has no render action for a layer that is
\* disabled or whose sub-layer flag is false, whatever the cameras of the
\* layer, and has one action per camera of every other layer.
C25_DisabledLayerHasNoActions ==
    raCall.op = "schedule" =>
        /\ \A j \in DOMAIN layerComposition._renderActions :
              LET i == layerComposition._renderActions[j].layerIndex + 1
              IN /\ layerComposition.layerList[i].enabled
                 /\ layerComposition.subLayerEnabled[i]
        /\ Len(layerComposition._renderActions) = EnabledCameraCount(1)

C25_Witness ==
    /\ raCall.op = "schedule"
    /\ Len(layerComposition.layerList) = 2
    /\ layerComposition.layerList[1].enabled /\ ~layerComposition.subLayerEnabled[1]
    /\ Len(layerComposition.layerList[1].cameras) = 2
    /\ Len(layerComposition._renderActions) = 1
    /\ layerComposition._renderActions[1].layerIndex = 1

-----------------------------------------------------------------------------
(* environment textures: the material's own and the scene's *)

EnvScenes == {Scene(Null, Null, FALSE), Scene("texB", "skybox", FALSE)}

NextEnv ==
    \/ \E value \in {Null, "texA"} : SetProp("matA", "envAtlas", value)
    \/ UpdateUniforms("matA")
    \/ \E scene \in EnvScenes : UpdateEnvUniforms("matA", scene)
    \/ \E scene \in EnvScenes :
          GetShaderVariant("matA", scene, "SHADER_FORWARD", "formatA", "ok")

SpecEnv == Init /\ [][NextEnv]_vars

\* C27: every name in _activeParams or in _activeLightingParams of a
\* material is a key of its parameters.
C27_ActiveParametersBound ==
    \A m \in Materials :
        (_activeParams[m] \cup _activeLightingParams[m]) \subseteq parameters[m]

\* C28: when updateUniforms or updateEnvUniforms is entered, whatever
\* happened before, the module-wide _params is empty, and after a pass that
\* completed the material's active set holds exactly the names emitted for
\* that material in that pass.
C28_ScratchEmptyAtEntry ==
    [][last'.op \in {"updateUniforms", "updateEnvUniforms"} =>
          /\ _params = {}
          /\ (last'.op = "updateUniforms" /\ last'.ok) =>
                _activeParams'[last'.mat] = passEmitted'[last'.mat]]_vars

\* the elements of the uniform of cubeMapProjectionBox (lines 1137-1143)
BoxParams == {"envBoxMin", "envBoxMax"}

\* C29: an updateUniforms pass with cubeMapProjection CUBEPROJ_BOX leaves
\* envBoxMin and envBoxMax in _activeParams; a pass with another projection
\* leaves neither bound; _activeParams never holds the uniform array itself.
C29_BoxParametersTracked ==
    [][(last'.op = "updateUniforms" /\ last'.ok) =>
          LET m == last'.mat IN
          /\ IF props'[m]["cubeMapProjection"] = "CUBEPROJ_BOX"
             THEN BoxParams \subseteq _activeParams'[m]
             ELSE BoxParams \cap parameters'[m] = {}
          /\ \A m2 \in Materials : BoxUniform(m2) \notin _activeParams'[m]]_vars

\* C30: an updateUniforms pass that completes calls clearVariants exactly
\* when _dirtyShader is true once the parameters are processed; with the flag
\* false it makes no call that touches the cached variants.
C30_ClearVariantsWhenDirty ==
    [][(last'.op = "updateUniforms" /\ last'.ok) =>
          (last'.note = "clearVariants" <=> _dirtyShader'[last'.mat])]_vars

C30_Witness ==
    /\ last.op = "updateUniforms" /\ last.ok /\ last.note = "clearVariants"
    /\ _dirtyShader[last.mat]
    /\ programCache # {}
    /\ props[last.mat]["envAtlas"] = "texA"

-----------------------------------------------------------------------------
(* SpecFloats: assignments to two float properties of one material, over   *)
(* 0, 1 and two values outside {0, 1}                                      *)

FloatValues == {0, Half, One, Num(3, 2)}

NextFloats ==
    \/ \E name \in {"alphaTest", "clearCoat"}, value \in FloatValues :
          SetProp("matA", name, value)
    \/ GetShaderVariant("matA", Scene(Null, Null, FALSE), "SHADER_FORWARD", "formatA", "ok")

SpecFloats == Init /\ [][NextFloats]_vars

\* C31: for a float property of a material whose _dirtyShader is false,
\* assigning a different value sets _dirtyShader if and only if exactly one
\* of the old and the new value is 0 or 1.
C31_FloatDirtyAcrossZeroOne ==
    [][(last'.op = "set" /\ last'.name \in FloatProps) =>
          LET m == last'.mat
              oldValue == props[m][last'.name]
              newValue == last'.arg
          IN (oldValue # newValue /\ ~_dirtyShader[m]) =>
                (_dirtyShader'[m] <=> ((oldValue \in {0, One}) # (newValue \in {0, One})))]_vars

\* a float property of a clean material went from 0 to 1 and the material
\* is still clean
C31_Witness ==
    /\ last.op = "set" /\ last.name = "clearCoat" /\ last.arg = One
    /\ last.note = "keeps" /\ ~_dirtyShader[last.mat]
    /\ props[last.mat]["alphaTest"] = Num(3, 2)

-----------------------------------------------------------------------------
(* SpecTextures: assignments to two texture map properties of one material *)

NextTextures ==
    \/ \E value \in Textures \cup {Null} : SetProp("matA", "lightMap", value)
    \/ \E value \in {Null, "texA"} : SetProp("matA", "diffuseMap", value)
    \/ GetShaderVariant("matA", Scene(Null, Null, FALSE), "SHADER_FORWARD", "formatA", "ok")

SpecTextures == Init /\ [][NextTextures]_vars

\* C32: for a texture map property of a material whose _dirtyShader is
\* false, assigning a different value stores it, and sets _dirtyShader if and
\* only if the map goes between bound and unbound or both textures are bound
\* and differ in type, format or fixCubemapSeams.
C32_MapDirtyOnBindingOrFormat ==
    [][(last'.op = "set" /\ last'.name \in MapProps) =>
          LET m == last'.mat
              oldValue == props[m][last'.name]
              newValue == last'.arg
              bothBound == Truthy(oldValue) /\ Truthy(newValue)
          IN oldValue # newValue =>
                /\ props'[m][last'.name] = newValue
                /\ ~_dirtyShader[m] =>
                      (_dirtyShader'[m] <=>
                          \/ Truthy(oldValue) # Truthy(newValue)
                          \/ /\ bothBound
                             /\ \/ TexType(oldValue) # TexType(newValue)
                                \/ TexFormat(oldValue) # TexFormat(newValue)
                                \/ TexFixCubemapSeams(oldValue)
                                      # TexFixCubemapSeams(newValue))]_vars

\* a bound texture of a clean material was replaced by another of the same
\* type, format and fixCubemapSeams: it is stored and the material is clean
C32_Witness ==
    /\ last.op = "set" /\ last.name = "lightMap" /\ last.arg = "texB"
    /\ last.note = "keeps" /\ ~_dirtyShader[last.mat]
    /\ props[last.mat]["lightMap"] = "texB"

-----------------------------------------------------------------------------
(* SpecObjects: assignments to the five properties _defineObject registers *)
(* and updateUniforms passes of one material                               *)

ObjectValues(name) ==
    CASE name = "envAtlas" -> {Null, Undefined, "texA", "texB"}
      [] name = "cubeMapProjectionBox" -> {Null, "objA", "objB"}
      [] name = "ambientSH" -> {Null, "objA"}
      [] OTHER -> {Null, "texA"}

\* the material's own environment textures among the names of a pass
LocalEnvTextures == {"texture_envAtlas", "texture_cubeMap", "texture_sphereMap"}

NextObjects ==
    \/ \E name \in ObjectProps, value \in Textures \cup Objects \cup {Null, Undefined} :
          /\ value \in ObjectValues(name)
          /\ SetProp("matA", name, value)
    \/ UpdateUniforms("matA")
    \/ GetShaderVariant("matA", Scene(Null, Null, FALSE), "SHADER_FORWARD", "formatA", "ok")

SpecObjects == Init /\ [][NextObjects]_vars

\* C33: for cubeMap, sphereMap, envAtlas, ambientSH and cubeMapProjectionBox
\* of a material whose _dirtyShader is false, assigning a different value sets
\* _dirtyShader if and only if the old and the new value are both set or both
\* unset; and an updateUniforms pass emits one of the material's environment
\* textures exactly when envAtlas, cubeMap or sphereMap is set.
C33_ObjectDirtyWhenBothSetOrUnset ==
    [][/\ (last'.op = "set" /\ last'.name \in ObjectProps) =>
             LET m == last'.mat
                 oldValue == props[m][last'.name]
                 newValue == last'.arg
             IN (oldValue # newValue /\ ~_dirtyShader[m]) =>
                   (_dirtyShader'[m] <=> (Truthy(oldValue) = Truthy(newValue)))
       /\ (last'.op = "updateUniforms" /\ last'.ok) =>
             LET m == last'.mat IN
             (passEmitted'[m] \cap LocalEnvTextures # {}) <=>
                 \E name \in {"envAtlas", "cubeMap", "sphereMap"} :
                     Truthy(props'[m][name])]_vars

\* envAtlas of a clean material went from unset to set: the material is
\* still clean, and the next pass would emit texture_envAtlas
C33_Witness ==
    /\ last.op = "set" /\ last.name = "envAtlas" /\ last.arg = "texA"
    /\ last.note = "keeps" /\ ~_dirtyShader[last.mat]
    /\ "texture_envAtlas" \notin passEmitted[last.mat]
    /\ "material_reflectivity" \in passEmitted[last.mat]

-----------------------------------------------------------------------------
(* SpecOverride: the material's environment properties, its shading model  *)
(* and useSkybox, with updateUniforms and updateEnvUniforms passes         *)

OverrideValues(name) ==
    CASE name = "shadingModel" -> {"SPECULAR_BLINN", "SPECULAR_PHONG"}
      [] name = "useSkybox" -> BOOLEAN
      [] OTHER -> {Null, "texA"}

OverrideScenes ==
    {Scene(Null, Null, FALSE), Scene("texB", "skybox", FALSE),
     Scene("texB", Null, TRUE), Scene(Null, "skybox", FALSE)}

NextOverride ==
    \/ \E name \in {"envAtlas", "cubeMap", "sphereMap", "shadingModel"} :
          \E value \in OverrideValues(name) : SetProp("matA", name, value)
    \/ \E value \in OverrideValues("useSkybox") : SetProp("matA", "useSkybox", value)
    \/ UpdateUniforms("matA")
    \/ \E scene \in OverrideScenes : UpdateEnvUniforms("matA", scene)

SpecOverride == Init /\ [][NextOverride]_vars

\* C34: an updateUniforms pass emits texture_envAtlas, texture_cubeMap or
\* texture_sphereMap if and only if (envAtlas is set and the shading model is
\* not Phong) or cubeMap is set or sphereMap is set; an updateEnvUniforms call
\* emits a parameter only when that condition is false and useSkybox is true.
C34_LocalOrSceneEnvironment ==
    [][LET m == last'.mat
           p == props'[m]
           override ==
               \/ Truthy(p["envAtlas"]) /\ p["shadingModel"] # "SPECULAR_PHONG"
               \/ Truthy(p["cubeMap"])
               \/ Truthy(p["sphereMap"])
       IN /\ (last'.op = "updateUniforms" /\ last'.ok) =>
                ((passEmitted'[m] \cap LocalEnvTextures # {}) <=> override)
          /\ last'.op = "updateEnvUniforms" =>
                (_activeLightingParams'[m] # {} => (~override /\ p["useSkybox"]))]_vars

\* a Phong material with envAtlas and cubeMap set: updateUniforms emitted
\* texture_cubeMap only, and updateEnvUniforms then emitted nothing
C34_Witness ==
    /\ last.op = "updateEnvUniforms"
    /\ props[last.mat]["shadingModel"] = "SPECULAR_PHONG"
    /\ props[last.mat]["envAtlas"] = "texA" /\ props[last.mat]["cubeMap"] = "texA"
    /\ props[last.mat]["useSkybox"]
    /\ passEmitted[last.mat] \cap LocalEnvTextures = {"texture_cubeMap"}
    /\ _activeLightingParams[last.mat] = {}

-----------------------------------------------------------------------------
(* SpecCubemaps: assignments to prefilteredCubemaps and envAtlas of one    *)
(* material                                                                *)

\* the arrays assigned: null (as the empty array), one face, and two
\* complete sets of six faces
FaceArrays ==
    {<<>>, <<"cubeA">>, [i \in 1..6 |-> "cubeA"],
     [i \in 1..6 |-> IF i = 1 THEN "cubeB" ELSE "cubeA"]}

NextCubemaps ==
    \/ \E value \in FaceArrays : SetPrefilteredCubemaps("matA", value)
    \/ \E value \in {Null, "texA"} : SetProp("matA", "envAtlas", value)
    \/ GetShaderVariant("matA", Scene(Null, Null, FALSE), "SHADER_FORWARD", "formatA", "ok")

SpecCubemaps == Init /\ [][NextCubemaps]_vars

\* C35: an assignment to prefilteredCubemaps that changes no stored face
\* leaves envAtlas, _dirtyShader and every texture alone; one that changes a
\* face leaves _dirtyShader true and envAtlas non-null exactly when the six
\* stored faces are all non-null: the atlas is generated when they are, and
\* otherwise the atlas the material had, if any, is destroyed in one call and
\* envAtlas is null. The face array stays the material's own.
C35_PrefilteredCubemapsAtlas ==
    [][(last'.op = "set" /\ last'.name = "prefilteredCubemaps") =>
          LET m == last'.mat
              oldFaces == props[m]["prefilteredCubemaps"]
              newFaces == props'[m]["prefilteredCubemaps"]
              oldAtlas == props[m]["envAtlas"]
              newAtlas == props'[m]["envAtlas"]
              complete == \A i \in 1..6 : newFaces[i] # Null
          IN /\ newFaces = last'.arg
             /\ owned'[m]["prefilteredCubemaps"] = owned[m]["prefilteredCubemaps"]
             /\ owned'[m]["prefilteredCubemaps"] # "facesV"
             /\ IF oldFaces = newFaces
                THEN /\ newAtlas = oldAtlas
                     /\ _dirtyShader'[m] = _dirtyShader[m]
                     /\ destroyed' = destroyed
                     /\ last'.calls = <<>>
                ELSE /\ _dirtyShader'[m]
                     /\ (newAtlas # Null) <=> complete
                     /\ complete =>
                           /\ destroyed' \subseteq destroyed
                           /\ last'.calls =
                                 <<[call |-> "generatePrefilteredAtlas", options |-> newAtlas]>>
                     /\ ~complete =>
                           last'.calls =
                               IF oldAtlas # Null
                               THEN <<[call |-> "envAtlas.destroy", options |-> oldAtlas]>>
                               ELSE <<>>]_vars

\* a material with a generated atlas was assigned an incomplete set of faces:
\* the atlas was destroyed and envAtlas is null
C35_Witness ==
    /\ last.op = "set" /\ last.name = "prefilteredCubemaps"
    /\ last.arg[1] = "cubeA" /\ last.arg[2] = Null
    /\ last.calls = <<[call |-> "envAtlas.destroy", options |-> "atlas1"]>>
    /\ "atlas1" \in destroyed
    /\ props[last.mat]["envAtlas"] = Null

-----------------------------------------------------------------------------
(* SpecCopy: matA.copy(matB), matA holding faces of its own and matB an    *)
(* environment atlas, a color and chunks                                   *)

\* the fields that hold a texture
TextureProps == Tracked \cap (MapProps \cup ObjectProps)

NextCopy ==
    \/ \E value \in {<<>>, <<"cubeA">>} : SetPrefilteredCubemaps("matA", value)
    \/ \E value \in {Null, "texA"} : SetProp("matB", "envAtlas", value)
    \/ \E value \in {Color(0, 0, 0), Color(One, One, One)} :
          SetProp("matB", "emissive", value)
    \/ \E value \in {{}, {"diffusePS"}} : SetChunks("matB", value)
    \/ GetShaderVariant("matB", Scene(Null, Null, FALSE), "SHADER_FORWARD", "formatA", "ok")
    \/ Copy("matA", "matB")

SpecCopy == Init /\ [][NextCopy]_vars

\* C36: copy(source) leaves every registered property of the destination
\* equal to the source's, with no aggregate object or face array shared, and
\* every chunk of the source among the destination's; it changes no property
\* of the source and destroys no texture the source refers to, and it leaves
\* the source's _dirtyShader true.
C36_CopyEqualsSource ==
    [][last'.op = "copy" =>
          LET dst == last'.mat
              source == last'.name
          IN /\ props'[dst] = props'[source]
             /\ \A k \in OwnedProps : owned'[dst][k] # owned'[source][k]
             /\ _chunks[source] \subseteq _chunks'[dst]
             /\ props'[source] = props[source]
             /\ \A t \in destroyed' \ destroyed :
                   \A k \in TextureProps : props'[source][k] # t
             /\ _dirtyShader'[source]]_vars

-----------------------------------------------------------------------------
(* SpecReset: reset() of a material whose properties, chunks, uniform      *)
(* cache and parameters were changed                                       *)

NextReset ==
    \/ \E value \in {Null, "texA"} : SetProp("matA", "envAtlas", value)
    \/ \E value \in {Color(0, 0, 0), Color(One, One, One)} :
          SetProp("matA", "emissive", value)
    \/ \E value \in {{}, {"diffusePS"}} : SetChunks("matA", value)
    \/ UpdateUniforms("matA")
    \/ GetShaderVariant("matA", Scene("texB", "skybox", FALSE), "SHADER_FORWARD",
                        "formatA", "ok")
    \/ Reset("matA")

SpecReset == Init /\ [][NextReset]_vars

\* C37: a newly constructed material has _dirtyShader true and every
\* registered property at its default; reset() puts every registered
\* property back to its default, in objects of the material's own, and
\* empties chunks and the uniform cache, and leaves _dirtyShader,
\* _activeParams, _activeLightingParams and the bound parameters as they were.
C37_ResetRestoresDefaults ==
    /\ [](last.op = "new" =>
             \A m \in Materials :
                 /\ _dirtyShader[m]
                 /\ \A name \in Tracked : props[m][name] = DefaultValue(name))
    /\ [][last'.op = "reset" =>
             LET m == last'.mat IN
             /\ \A name \in Tracked : props'[m][name] = DefaultValue(name)
             /\ \A k \in OwnedProps :
                   /\ owned'[m][k] \notin CallerObjects
                   /\ \A m2 \in Materials \ {m} : owned'[m][k] # owned'[m2][k]
             /\ _chunks'[m] = {}
             /\ _uniformCache'[m] = {}
             /\ _dirtyShader'[m] = _dirtyShader[m]
             /\ _activeParams' = _activeParams
             /\ _activeLightingParams' = _activeLightingParams
             /\ parameters' = parameters]_vars

\* reset() ran on a clean material whose envAtlas had been set and bound:
\* the property is back at null, the material still clean, the parameter
\* still bound
C37_Witness ==
    /\ last.op = "reset" /\ ~_dirtyShader[last.mat]
    /\ props[last.mat]["envAtlas"] = Null
    /\ "texture_envAtlas" \in parameters[last.mat]
    /\ "texture_envAtlas" \in _activeParams[last.mat]
    /\ _chunks[last.mat] = {} /\ _uniformCache[last.mat] = {}

-----------------------------------------------------------------------------
(* SpecRecollect: two collectDirectionalLights calls with the same         *)
(* arguments, on a new RenderAction, on one that collected other lights,   *)
(* and on one in use with its fields assigned and a bind group             *)

\* a RenderAction set up for a camera, with a bind group, that collected two
\* lights in an earlier frame
RenderActionInUse ==
    [name \in DOMAIN UsedRenderAction |->
        IF name = "viewBindGroups" THEN <<"bindGroupA">>
        ELSE LET setup == CHOOSE x \in RenderActionSetups : x.camera = "cameraA"
             IN IF name \in DOMAIN setup THEN setup[name] ELSE UsedRenderAction[name]]

InitRecollect ==
    /\ MaterialsInit
    /\ ra \in {NewRenderAction, UsedRenderAction, RenderActionInUse}
    /\ layerComposition = EmptyComposition
    /\ \E cameraLayers \in ArraysUpTo(Layers, MaxLayers),
          dirLights \in ArraysUpTo(Lights, MaxDirLights),
          allLights \in AllLightsArrays :
          raCall = [op |-> "call", cameraLayers |-> cameraLayers,
                    dirLights |-> dirLights, allLights |-> allLights]

NextRecollect ==
    \/ CollectPending
    \/ CollectAgain

SpecRecollect == InitRecollect /\ [][NextRecollect]_vars

\* C38: after collectDirectionalLights, directionalLightsSet,
\* directionalLights and directionalLightsIndices are what the call leaves in
\* a newly constructed action given the same arguments, whatever the action
\* held before; a second call with the same arguments changes nothing; and
\* no other field of the action changes.
C38_CollectDependsOnArgumentsOnly ==
    [][LET fresh == Collected(NewRenderAction, raCall.cameraLayers,
                              raCall.dirLights, raCall.allLights)
       IN /\ ra'.directionalLightsSet = fresh.directionalLightsSet
          /\ ra'.directionalLights = fresh.directionalLights
          /\ ra'.directionalLightsIndices = fresh.directionalLightsIndices
          /\ ra' = [ra EXCEPT !.directionalLightsSet = ra'.directionalLightsSet,
                              !.directionalLights = ra'.directionalLights,
                              !.directionalLightsIndices = ra'.directionalLightsIndices]
          /\ raCall'.op = "collectDirectionalLights again" => ra' = ra]_vars

\* an action in use that held sunB and sunA was given arguments that select
\* sunA alone, twice: it holds sunA alone and its other fields are as before
C38_Witness ==
    /\ raCall.op = "collectDirectionalLights again"
    /\ raCall.dirLights = <<"sunA">>
    /\ ra.directionalLights = <<"sunA">>
    /\ ra.directionalLightsSet = {"sunA"}
    /\ ra.camera = "cameraA" /\ ra.viewBindGroups = <<"bindGroupA">>

=============================================================================
